---------------------------- MODULE Spec2Model ----------------------------
(***************************************************************************)
(* A model of the floating-box subsystem of the big-number Obsidian plugin: *)
(* the FloatingBoxManager registry (src/unnamed/part_002), the FloatingBox  *)
(* widget with its drag / resize state machine (src/unnamed/part_003), the  *)
(* plugin glue (src/unnamed/part_000, second file) and the note resolver.   *)
(*                                                                         *)
(* Conventions.                                                            *)
(*  - Lengths and coordinates are kept in HALF PIXELS: a length of n px is  *)
(*    the integer Px(n) = 2n.  The code divides sizes by two (the centre of *)
(*    a box, the new top-left after a resize), so half pixels keep every    *)
(*    value of the code an integer without rounding anything.  Font sizes   *)
(*    and z-indexes are plain numbers.                                      *)
(*  - Text is a TLA+ string; a note's content is a sequence of one-         *)
(*    character strings, so that the regular expressions of the code can be *)
(*    evaluated character by character.                                     *)
(*  - JavaScript objects that are shared by reference (the position         *)
(*    objects) live in a heap, posHeap, and records hold references.        *)
(***************************************************************************)
EXTENDS Integers, Sequences, FiniteSets, TLC

VARIABLES
    now,            \* the value Date.now() last returned
    boxes,          \* FloatingBoxManager.boxes: box id -> widget handle
    widgets,        \* every FloatingBox object constructed so far
    posHeap,        \* the {x, y} position objects, by reference
    pluginBoxes,    \* plugin.settings.boxes: box id -> BoxSettings
    defaultBox,     \* DEFAULT_SETTINGS.boxes.default (zIndex is mutated)
    savedData,      \* the blob plugin.saveData was last given
    reads,          \* updateContent calls suspended at their await
    vault,          \* the host: daily-notes feature and today's note
    dailyNoteEndTime, \* plugin.settings.dailyNoteEndTime
    events,         \* number of further events the run may deliver
    hist,           \* history: per widget, where its current gesture began
    last            \* history: the operation that led to this state

vars == << now, boxes, widgets, posHeap, pluginBoxes, defaultBox, savedData,
           reads, vault, dailyNoteEndTime, events, hist, last >>

---------------------------------------------------------------------------
(* Bounds of the model.                                                    *)

MaxClock == 2
MaxWidgets == 3
MaxReads == 2
MaxEvents == 2
MaxGestureEvents == 4
MaxResolveEvents == 2
MaxFormEvents == 3
MaxSegments == 3
MaxResizeEvents == 3
MaxHoverEvents == 4
MaxClampEvents == 5
MaxDayEvents == 3

(* Program constants.                                                      *)

RESIZE_HANDLE == 8
MIN_FONT_SIZE == 12
MAX_SIZE == 1000
BASE_Z_INDEX == 100

Px(n) == n + n

Min2(a, b) == IF a < b THEN a ELSE b
Max2(a, b) == IF a > b THEN a ELSE b
Abs(a) == IF a < 0 THEN 0 - a ELSE a

RECURSIVE SetMin(_)
SetMin(S) ==
    LET x == CHOOSE y \in S : TRUE
    IN  IF S = {x} THEN x ELSE Min2(x, SetMin(S \ {x}))

---------------------------------------------------------------------------
(* Text helpers: what String.prototype.match / split / trim / toString do   *)
(* on the inputs of the resolver.                                           *)

LineTerminator == "\n"
IsSpace(c) == c \in {" ", "\n"}

Digits == << "0", "1", "2", "3", "4", "5", "6", "7", "8", "9" >>

\* Number.prototype.toString() of a non-negative integer.
RECURSIVE NumberToString(_)
NumberToString(n) ==
    IF n < 10 THEN Digits[n + 1]
    ELSE NumberToString(n \div 10) \o Digits[(n % 10) + 1]

\* The string made of the characters cs.
RECURSIVE Join(_)
Join(cs) == IF cs = << >> THEN "" ELSE Head(cs) \o Join(Tail(cs))

\* String.prototype.trim() on a sequence of characters.
RECURSIVE TrimLeft(_)
TrimLeft(cs) ==
    IF cs # << >> /\ IsSpace(Head(cs)) THEN TrimLeft(Tail(cs)) ELSE cs

RECURSIVE TrimRight(_)
TrimRight(cs) ==
    IF cs # << >> /\ IsSpace(cs[Len(cs)])
    THEN TrimRight(SubSeq(cs, 1, Len(cs) - 1))
    ELSE cs

Trim(cs) == TrimRight(TrimLeft(cs))

\* Index of the last character of the line that holds index i ('.' never
\* matches a line terminator, so a greedy '.+' stops there).
RECURSIVE LineEnd(_, _)
LineEnd(content, i) ==
    IF i >= Len(content) \/ content[i + 1] = LineTerminator
    THEN i
    ELSE LineEnd(content, i + 1)

\* One pattern character against one content character: '.' is the only
\* metacharacter the modelled field names use.
PatternCharMatches(p, c) ==
    IF p = "." THEN c # LineTerminator ELSE p = c

\* Whether the literal prefix `pre` followed by '.+' matches at index i.
PrefixDotPlusAt(content, pre, i) ==
    /\ i + Len(pre) <= Len(content)
    /\ \A k \in 1..Len(pre) : PatternCharMatches(pre[k], content[i + k - 1])
    /\ content[i + Len(pre)] # LineTerminator

\* Start of the leftmost match of  pre.+  at or after index `from`; 0 if none.
FirstMatch(content, pre, from) ==
    LET starts == { i \in from..Len(content) : PrefixDotPlusAt(content, pre, i) }
    IN  IF starts = {} THEN 0 ELSE SetMin(starts)

\* content.match(/pre.+/g).length: successive non-overlapping matches, each
\* running to the end of its line.
RECURSIVE CountGlobalMatches(_, _, _)
CountGlobalMatches(content, pre, from) ==
    LET i == FirstMatch(content, pre, from)
    IN  IF i = 0 THEN 0
        ELSE 1 + CountGlobalMatches(content, pre,
                                    LineEnd(content, i + Len(pre)) + 1)

CompletedMarker == << "-", " ", "[", "x", "]", " " >>
UncompletedMarker == << "-", " ", "[", " ", "]", " " >>

\* FloatingBoxManager.countCompletedTasks:  /- \[x\] .+/g
countCompletedTasks(content) ==
    CountGlobalMatches(content, CompletedMarker, 1)

\* FloatingBoxManager.countUncompletedTasks:  /- \[ \] .+/g
countUncompletedTasks(content) ==
    CountGlobalMatches(content, UncompletedMarker, 1)

\* FloatingBoxManager.countWords: split(/\s+/) and drop the empty pieces,
\* i.e. the number of maximal runs of non-whitespace characters.
countWords(content) ==
    Cardinality({ i \in 1..Len(content) :
                    /\ ~IsSpace(content[i])
                    /\ (i = 1 \/ IsSpace(content[i - 1])) })

\* The character ` (U+0060), which a string literal cannot hold.
Backtick == "U+0060"

\* Whether ``` starts at index i.
FenceAt(cs, i) ==
    /\ i + 2 <= Len(cs)
    /\ cs[i] = Backtick /\ cs[i + 1] = Backtick /\ cs[i + 2] = Backtick

\* .replace(/```[\s\S]*?```/g, ''), from index i on: a ``` and everything up
\* to the nearest later ``` is dropped; a ``` with none after it stays.
RECURSIVE RemoveCodeBlocks(_, _)
RemoveCodeBlocks(cs, i) ==
    IF i > Len(cs) THEN << >>
    ELSE LET closers == { j \in (i + 3)..Len(cs) : FenceAt(cs, j) }
         IN  IF FenceAt(cs, i) /\ closers # {}
             THEN RemoveCodeBlocks(cs, SetMin(closers) + 3)
             ELSE << cs[i] >> \o RemoveCodeBlocks(cs, i + 1)

\* .replace(/`[^`]*`/g, ''), from index i on: a backtick and everything up
\* to the next backtick is dropped; a backtick with none after it stays.
RECURSIVE RemoveInlineCode(_, _)
RemoveInlineCode(cs, i) ==
    IF i > Len(cs) THEN << >>
    ELSE LET closers == { j \in (i + 1)..Len(cs) : cs[j] = Backtick }
         IN  IF cs[i] = Backtick /\ closers # {}
             THEN RemoveInlineCode(cs, SetMin(closers) + 1)
             ELSE << cs[i] >> \o RemoveInlineCode(cs, i + 1)

\* .replace(/\[([^\]]*)\]\([^)]*\)/g, '$1'), from index i on: a '[' whose
\* next ']' is followed by '(' and, later, a ')' is replaced by the text
\* between the brackets.
RECURSIVE ReplaceLinks(_, _)
ReplaceLinks(cs, i) ==
    IF i > Len(cs) THEN << >>
    ELSE LET rbs == { j \in (i + 1)..Len(cs) : cs[j] = "]" }
             rb  == SetMin(rbs)
             rps == { k \in (rb + 2)..Len(cs) : cs[k] = ")" }
         IN  IF /\ cs[i] = "["
                /\ rbs # {}
                /\ rb + 1 <= Len(cs)
                /\ cs[rb + 1] = "("
                /\ rps # {}
             THEN SubSeq(cs, i + 1, rb - 1) \o ReplaceLinks(cs, SetMin(rps) + 1)
             ELSE << cs[i] >> \o ReplaceLinks(cs, i + 1)

\* .replace(/[#*_~`]/g, '')
RemoveMarkdownSymbols(cs) ==
    SelectSeq(cs, LAMBDA c : c \notin { "#", "*", "_", "~", Backtick })

\* cleanContent of the older FloatingNumberPlugin.countWords.
cleanContent(content) ==
    Trim(RemoveMarkdownSymbols(
           ReplaceLinks(
             RemoveInlineCode(RemoveCodeBlocks(content, 1), 1), 1)))

\* FloatingNumberPlugin.countWords, the variant that strips markdown:
\* cleanContent.split(/\s+/).filter(word => word.length > 0).length
countWordsStripped(content) == countWords(cleanContent(content))

\* The field name is interpolated into the pattern unescaped: '(' and ')'
\* in it delimit groups, '.' matches any character, the rest is literal.
IsParen(c) == c \in { "(", ")" }

\* Nesting depth after each prefix of the field; -1 once a ')' is unmatched.
RECURSIVE ParenDepth(_, _)
ParenDepth(field, k) ==
    IF k = 0 THEN 0
    ELSE LET d == ParenDepth(field, k - 1)
         IN  IF d < 0 THEN d
             ELSE IF field[k] = "(" THEN d + 1
             ELSE IF field[k] = ")" THEN d - 1
             ELSE d

\* new RegExp(`${field}:: (.+)`) throws a SyntaxError on unbalanced
\* parentheses.
RegExpThrows(field) == ParenDepth(field, Len(field)) # 0

\* The pattern characters of the field that consume one character each.
FieldAtoms(field) == SelectSeq(field, LAMBDA c : ~IsParen(c))

\* The number of those among the first k characters of the field.
AtomsBefore(field, k) ==
    Cardinality({ j \in 1..k : ~IsParen(field[j]) })

\* match[1] for a match of `${field}:: (.+)` that starts at index i: the
\* first group of the pattern, which is the field's own first group when
\* the field has one, and the (.+) otherwise.
FirstGroup(content, field, i) ==
    LET pre == FieldAtoms(field) \o << ":", ":", " " >>
        opens == { k \in 1..Len(field) : field[k] = "(" }
    IN  IF opens = {}
        THEN SubSeq(content, i + Len(pre), LineEnd(content, i + Len(pre)))
        ELSE LET k == SetMin(opens)
                 j == SetMin({ m \in (k + 1)..Len(field) :
                                 ParenDepth(field, m) = ParenDepth(field, k - 1) })
             IN  SubSeq(content, i + AtomsBefore(field, k),
                        i + AtomsBefore(field, j) - 1)

\* The dataview case of getTodayNumber: the first match of
\* `${field}:: (.+)`, its first group trimmed, or the no-data message.
dataviewValue(content, field, noDataMessage) ==
    LET pre == FieldAtoms(field) \o << ":", ":", " " >>
        i   == FirstMatch(content, pre, 1)
    IN  IF i = 0 THEN noDataMessage
        ELSE Join(Trim(FirstGroup(content, field, i)))

---------------------------------------------------------------------------
(* Settings records (BoxSettings of settings.ts).  `position` is a         *)
(* reference into posHeap; the other fields are values.  The style-only     *)
(* fields (colours, isBold) are left out: no handler reads them for         *)
(* anything but the element's style.                                        *)

DefaultPosRef == 0

DEFAULT_BOX ==
    [ position       |-> DefaultPosRef,
      zIndex         |-> BASE_Z_INDEX,
      fontSize       |-> 16,
      padding        |-> 8,
      dataType       |-> "completedTasks",
      dataviewField  |-> << >>,
      noDataMessage  |-> "N/A",
      useDailyNote   |-> TRUE,
      customNotePath |-> "" ]

\* DEFAULT_SETTINGS.dailyNoteEndTime, "04:00", as its characters.
DEFAULT_END_TIME == << "0", "4", ":", "0", "0" >>

DEFAULT_POSITION == [ x |-> Px(100), y |-> Px(100) ]

\* { ...a, ...b } for a partial record b.
MutMerge(a, b) == a

Merge(a, b) ==
    [ f \in DOMAIN a |-> IF f \in DOMAIN b THEN b[f] ELSE a[f] ]

\* JSON snapshot of a settings record: the position by value.
Snapshot(s, heap) == [ s EXCEPT !.position = heap[s.position] ]

NoEdge == "null"
NoPos == << >>

---------------------------------------------------------------------------
(* FloatingBox (src/unnamed/part_003).                                      *)

\* FloatingBox.getSettings: a shallow copy, so the position object is shared.
getSettings(box) == box.settings

\* The element's bounding rectangle: style.left / style.top as written by
\* updatePosition, style.width / style.height as written by onResizing (or the
\* automatic size of the element while they are unset).
Rect(box) ==
    [ left |-> box.elLeft, top |-> box.elTop,
      width |-> box.elWidth, height |-> box.elHeight ]

Inside(p, r) ==
    /\ r.left <= p[1] /\ p[1] <= r.left + r.width
    /\ r.top <= p[2] /\ p[2] <= r.top + r.height

\* Hit testing: the element of widget w is the one under the pointer, i.e. it
\* is in the document, holds p, and no box that holds p is stacked above it
\* (a higher z-index, or the same z-index and later in the document).
Topmost(ws, w, p) ==
    /\ ws[w].elAttached
    /\ Inside(p, Rect(ws[w]))
    /\ \A o \in DOMAIN ws \ { w } :
          ~( /\ ws[o].elAttached
             /\ Inside(p, Rect(ws[o]))
             /\ \/ ws[o].elZIndex > ws[w].elZIndex
                \/ ws[o].elZIndex = ws[w].elZIndex /\ o > w )

MutDetectResizeEdge(p, r) ==
    LET x == p[1] - r.left
        y == p[2] - r.top
    IN  CASE x < Px(RESIZE_HANDLE)           -> "w"
          [] x > r.width - Px(RESIZE_HANDLE)  -> "e"
          [] y < Px(RESIZE_HANDLE)           -> "n"
          [] y > r.height - Px(RESIZE_HANDLE) -> "s"
          [] OTHER                            -> NoEdge

\* FloatingBox.detectResizeEdge
detectResizeEdge(p, r) ==
    LET x == p[1] - r.left
        y == p[2] - r.top
        isLeft   == x < Px(RESIZE_HANDLE)
        isRight  == x > r.width - Px(RESIZE_HANDLE)
        isTop    == y < Px(RESIZE_HANDLE)
        isBottom == y > r.height - Px(RESIZE_HANDLE)
    IN  CASE isLeft /\ isTop      -> "nw"
          [] isRight /\ isTop     -> "ne"
          [] isLeft /\ isBottom   -> "sw"
          [] isRight /\ isBottom  -> "se"
          [] isLeft               -> "w"
          [] isRight              -> "e"
          [] isTop                -> "n"
          [] isBottom             -> "s"
          [] OTHER                -> NoEdge

\* String.prototype.includes on the edge names.
EdgeIncludes(edge, c) ==
    CASE c = "w" -> edge \in {"w", "nw", "sw"}
      [] c = "e" -> edge \in {"e", "ne", "se"}
      [] c = "n" -> edge \in {"n", "ne", "nw"}
      [] c = "s" -> edge \in {"s", "se", "sw"}

\* MIN_SIZE of onResizing, for a padding in px.
MinSize(padding) == Px(padding * 2 + RESIZE_HANDLE * 2)

MutResizedFontSize(initialFontSize, newSize, padding) ==
    LET availableSpace == (newSize - Px(padding * 2)) \div 2
        denominator == (MinSize(padding) - Px(padding * 2)) \div 2
    IN  Max2(MIN_FONT_SIZE, (initialFontSize * availableSpace) \div denominator)

\* The font size onResizing computes for a new size (half px) and a padding:
\*   Math.round(Math.max(12, Math.min(initialFontSize * scaleFactor,
\*                                    availableSpace * 0.72)))
\* with availableSpace = newSize - 2 padding (px) and scaleFactor =
\* availableSpace / (MIN_SIZE - 2 padding).  Evaluated exactly, in units of
\* 1/400 px (0.72 = 288/400, 1/16 = 25/400).
ResizedFontSize(initialFontSize, newSize, padding) ==
    LET availableSpace == (newSize - Px(padding * 2)) \div 2
        denominator == (MinSize(padding) - Px(padding * 2)) \div 2
        scaled == (initialFontSize * availableSpace * 400) \div denominator
        capped == availableSpace * 288
        v == Max2(MIN_FONT_SIZE * 400, Min2(scaled, capped))
    IN  (v + 200) \div 400

\* The raw size onResizing derives from the pointer, for the active edge.
NewSizeRaw(box, p) ==
    LET r == Rect(box)
        centerX == r.left + r.width \div 2
        centerY == r.top + r.height \div 2
        adjustedMouseX ==
            IF EdgeIncludes(box.resizeEdge, "w") THEN p[1] - Px(RESIZE_HANDLE)
            ELSE IF EdgeIncludes(box.resizeEdge, "e") THEN p[1] + Px(RESIZE_HANDLE)
            ELSE p[1]
        adjustedMouseY ==
            IF EdgeIncludes(box.resizeEdge, "n") THEN p[2] - Px(RESIZE_HANDLE)
            ELSE IF EdgeIncludes(box.resizeEdge, "s") THEN p[2] + Px(RESIZE_HANDLE)
            ELSE p[2]
    IN  Max2(Abs(adjustedMouseX - centerX), Abs(adjustedMouseY - centerY)) * 2

\* The early return of onResizing.
ResizeGuard(box) ==
    /\ box.isResizing
    /\ box.initialFontSize # 0
    /\ box.initialMousePos # NoPos
    /\ box.resizeEdge # NoEdge

\* Whether onResizing changes the box: the guard, and the raw size in range.
ResizeApplies(box, p) ==
    /\ ResizeGuard(box)
    /\ NewSizeRaw(box, p) >= MinSize(box.settings.padding)
    /\ NewSizeRaw(box, p) <= Px(MAX_SIZE)

MutClampSize(newSizeRaw, padding) == newSizeRaw - Px(padding * 2)

\* newSize = Math.min(Math.max(MIN_SIZE, newSizeRaw), 1000)
ClampSize(newSizeRaw, padding) ==
    Min2(Max2(MinSize(padding), newSizeRaw), Px(MAX_SIZE))

MutResizedPosition(center, newSize) == center - newSize

\* settings.position.x = center.x - newSize / 2
ResizedPosition(center, newSize) == center - newSize \div 2

\* FloatingBox.onResizing, on the widget record: the element's size and
\* position and settings.fontSize (the position object and the content
\* refresh it starts are written by the action).
onResizing(box, p) ==
    IF ~ResizeApplies(box, p) THEN box
    ELSE
        LET r == Rect(box)
            newSizeRaw == NewSizeRaw(box, p)
            newSize == ClampSize(newSizeRaw, box.settings.padding)
            centerX == r.left + r.width \div 2
            centerY == r.top + r.height \div 2
        IN  [ box EXCEPT
                !.elWidth = newSize,
                !.elHeight = newSize,
                !.settings.fontSize =
                    ResizedFontSize(box.initialFontSize, newSize,
                                    box.settings.padding),
                !.elLeft = ResizedPosition(centerX, newSize),
                !.elTop = ResizedPosition(centerY, newSize) ]

MutDragPosition(client, dragOffset) == client

\* settings.position.x = clientX - this.dragOffset.x
DragPosition(client, dragOffset) == client - dragOffset

\* FloatingBox.onDragMove, on the widget record.
onDragMove(box, p) ==
    IF ~box.isDragging THEN box
    ELSE [ box EXCEPT
             !.elLeft = DragPosition(p[1], box.dragOffset[1]),
             !.elTop = DragPosition(p[2], box.dragOffset[2]) ]

---------------------------------------------------------------------------
(* The host application (Obsidian): the daily-notes core plugin and the     *)
(* vault that holds today's daily note.                                     *)

\* FloatingNumberPlugin.getTodayDailyNote: whether it returns a file (TRUE)
\* or null (FALSE).
getTodayDailyNote(v) == v.enabled /\ v.exists

\* FloatingBoxManager.getTodayNumber, `if (!dailyNote) return "N/A"`.
NoNoteResult(settings) == "N/A"

\* FloatingBoxManager.getTodayNumber, the switch over settings.dataType once
\* the content is read.  The result is [rejected, value]: the promise
\* rejects when `new RegExp` throws.
ExtractValue(settings, content) ==
    CASE settings.dataType = "completedTasks" ->
            [ rejected |-> FALSE,
              value |-> NumberToString(countCompletedTasks(content)) ]
      [] settings.dataType = "uncompletedTasks" ->
            [ rejected |-> FALSE,
              value |-> NumberToString(countUncompletedTasks(content)) ]
      [] settings.dataType = "wordCount" ->
            [ rejected |-> FALSE,
              value |-> NumberToString(countWords(content)) ]
      [] settings.dataType = "dataview" ->
            IF RegExpThrows(settings.dataviewField)
            THEN [ rejected |-> TRUE, value |-> "" ]
            ELSE [ rejected |-> FALSE,
                   value |-> dataviewValue(content, settings.dataviewField,
                                           settings.noDataMessage) ]
      [] OTHER ->
            [ rejected |-> FALSE, value |-> settings.noDataMessage ]

\* `await this.plugin.app.vault.read(dailyNote)` and what follows it: the read
\* rejects when the file is gone by the time it is read.
ReadResult(settings, v) ==
    IF ~v.exists THEN [ rejected |-> TRUE, value |-> "" ]
    ELSE ExtractValue(settings, v.content)

\* The fields of a settings object that getTodayNumber reads.
ResolverView(settings) ==
    [ dataType      |-> settings.dataType,
      dataviewField |-> settings.dataviewField,
      noDataMessage |-> settings.noDataMessage ]

\* FloatingBox.updateContent up to its await: the pending call, with the
\* locals of getTodayNumber (dailyNote: whether a file was found; content
\* and readError: what the read delivered, or that it threw).  The settings object handed to getTodayNumber is
\* never written again in the fields the resolver reads, so it is kept by
\* value.
StartRead(w, box, v, initial) ==
    IF getTodayDailyNote(v)
    THEN [ w |-> w, settings |-> ResolverView(box.settings),
           initial |-> initial, dailyNote |-> TRUE, content |-> << >>,
           readError |-> FALSE, state |-> "reading", rejected |-> FALSE, value |-> "" ]
    ELSE [ w |-> w, settings |-> ResolverView(box.settings),
           initial |-> initial, dailyNote |-> FALSE, content |-> << >>,
           readError |-> FALSE, state |-> "resolved", rejected |-> FALSE,
           value |-> NoNoteResult(box.settings) ]

---------------------------------------------------------------------------
(* FloatingBox construction and FloatingBoxManager helpers.                 *)

\* new FloatingBox(manager, id, settings) up to the await in createDOM: the
\* settings are copied with a fresh position object (reference `ref`), the
\* element is created, appended and positioned.  `size` is the automatic
\* size the browser gives the unsized element.
NewBox(id, settings, ref, pos, size) ==
    [ id              |-> id,
      settings        |-> [ settings EXCEPT !.position = ref ],
      destroyed       |-> FALSE,
      elAttached      |-> TRUE,
      elZIndex        |-> settings.zIndex,
      elLeft          |-> pos.x,
      elTop           |-> pos.y,
      elWidth         |-> size[1],
      elHeight        |-> size[2],
      elText          |-> "",
      docListeners    |-> FALSE,
      elListeners     |-> FALSE,
      isDragging      |-> FALSE,
      isResizing      |-> FALSE,
      resizeEdge      |-> NoEdge,
      dragOffset      |-> << 0, 0 >>,
      initialFontSize |-> 0,
      initialMousePos |-> NoPos,
      isMouseOver     |-> FALSE,
      elCursor        |-> "",
      pointerOver     |-> FALSE ]

\* FloatingBox.destroy
destroy(box) ==
    [ box EXCEPT !.docListeners = FALSE, !.elListeners = FALSE,
                 !.elAttached = FALSE, !.destroyed = TRUE ]

MutCollectSettings(bx, ws) ==
    [ id \in { ws[w].id : w \in DOMAIN ws } |->
        getSettings(ws[CHOOSE w \in DOMAIN ws : ws[w].id = id]) ]

\* saveAllBoxesSettingsToPluginSettings: the new plugin.settings.boxes.
CollectSettings(bx, ws) ==
    [ id \in DOMAIN bx |-> getSettings(ws[bx[id]]) ]

\* The JSON blob plugin.saveData serialises.
Blob(pb, heap) == [ id \in DOMAIN pb |-> Snapshot(pb[id], heap) ]

\* FloatingBoxManager.generateUniqueId, for Date.now() = t.
generateUniqueId(t) == "box_" \o NumberToString(t)

MutLowestZIndex(bx, ws) == BASE_Z_INDEX

\* createBox: the reduce over the registry, starting from 100.
LowestZIndex(bx, ws) ==
    SetMin({ BASE_Z_INDEX } \cup
           { getSettings(ws[bx[id]]).zIndex : id \in DOMAIN bx })

Registered == { boxes[id] : id \in DOMAIN boxes }

\* The record kept in `last`: the operation, its box id, widget and pointer
\* position, the number of plugin.saveData calls it issued, and whether a
\* promise it settled rejected with nothing to handle it.
NoArg == [ f \in {} |-> 0 ]

Op(name, id, w, p, saves, threw) ==
    [ op |-> name, id |-> id, w |-> w, p |-> p, saves |-> saves,
      threw |-> threw, arg |-> NoArg ]

\* The same, with the operation's argument: the partial settings of
\* updateOneBoxSettings, the settled call of a content refresh.
OpWith(name, id, w, arg, saves, threw) ==
    [ op |-> name, id |-> id, w |-> w, p |-> NoPos, saves |-> saves,
      threw |-> threw, arg |-> arg ]

---------------------------------------------------------------------------
(* Initial states: the plugin has loaded its settings and loadBoxes has     *)
(* constructed one widget per persisted box; every widget's first content   *)
(* refresh (createDOM) is still pending.                                    *)

NoHist == [ downAt |-> NoPos, posAtDown |-> NoPos, applied |-> FALSE,
            padding |-> 0 ]

\* `loaded` is the sequence of << id, settings, position, automatic size >>
\* as read from data.json (or the defaults on a fresh install).
InitFrom(loaded, v, budget) ==
    /\ now = 1
    /\ vault = v
    /\ dailyNoteEndTime = DEFAULT_END_TIME
    /\ posHeap =
         [ r \in { DefaultPosRef } \cup { 0 - k : k \in 1..Len(loaded) }
                 \cup (1..Len(loaded)) |->
             IF r = DefaultPosRef THEN DEFAULT_POSITION
             ELSE loaded[Abs(r)][3] ]
    /\ pluginBoxes =
         [ id \in { loaded[k][1] : k \in 1..Len(loaded) } |->
             LET k == CHOOSE j \in 1..Len(loaded) : loaded[j][1] = id
             IN  [ loaded[k][2] EXCEPT !.position = 0 - k ] ]
    /\ widgets =
         [ k \in 1..Len(loaded) |->
             NewBox(loaded[k][1], loaded[k][2], k, loaded[k][3], loaded[k][4]) ]
    /\ boxes =
         [ id \in { loaded[k][1] : k \in 1..Len(loaded) } |->
             CHOOSE j \in 1..Len(loaded) : loaded[j][1] = id ]
    /\ defaultBox = DEFAULT_BOX
    /\ savedData = Blob(pluginBoxes, posHeap)
    /\ reads = { StartRead(k, widgets[k], v, TRUE) : k \in 1..Len(loaded) }
    /\ events = budget
    /\ hist = [ k \in 1..Len(loaded) |-> NoHist ]
    /\ last = Op("load", "", 0, NoPos, 0, FALSE)

---------------------------------------------------------------------------
(* Actions.                                                                 *)

Budget == events > 0

\* FloatingBoxManager.createBox(DEFAULT_SETTINGS.boxes.default), as the
\* settings tab calls it.  t is what Date.now() returns at the call (the
\* clock never runs backwards); `size` is the automatic size of the new
\* element.
CreateBox(t, size) ==
    LET id == generateUniqueId(t)
        lowestZIndex == LowestZIndex(boxes, widgets)
        newSettings == [ defaultBox EXCEPT !.zIndex = lowestZIndex - 1 ]
        w == Len(widgets) + 1
        box == NewBox(id, newSettings, w, posHeap[defaultBox.position], size)
    IN  /\ Budget
        /\ t >= now
        /\ now' = t
        /\ Len(widgets) < MaxWidgets
        /\ Cardinality(reads) < MaxReads
        /\ defaultBox' = [ defaultBox EXCEPT !.zIndex = lowestZIndex - 1 ]
        /\ widgets' = Append(widgets, box)
        /\ posHeap' = [ r \in DOMAIN posHeap \cup { w } |->
                          IF r = w THEN posHeap[defaultBox.position]
                          ELSE posHeap[r] ]
        /\ boxes' = [ i \in DOMAIN boxes \cup { id } |->
                        IF i = id THEN w ELSE boxes[i] ]
        /\ reads' = reads \cup { StartRead(w, box, vault, TRUE) }
        /\ pluginBoxes' = CollectSettings(boxes', widgets')
        /\ savedData' = Blob(pluginBoxes', posHeap')
        /\ hist' = Append(hist, NoHist)
        /\ events' = events - 1
        /\ last' = Op("createBox", id, w, NoPos, 1, FALSE)
        /\ UNCHANGED << vault, dailyNoteEndTime >>

MutRemoveBox(id) ==
    /\ Budget
    /\ widgets' = IF id \in DOMAIN boxes
                  THEN [ widgets EXCEPT ![boxes[id]] = destroy(@) ]
                  ELSE widgets
    /\ boxes' = [ i \in DOMAIN boxes \ { id } |-> boxes[i] ]
    /\ pluginBoxes' = CollectSettings(boxes', widgets')
    /\ savedData' = Blob(pluginBoxes', posHeap)
    /\ events' = events - 1
    /\ last' = Op("removeBox", id,
                  IF id \in DOMAIN boxes THEN boxes[id] ELSE 0, NoPos, 1, FALSE)
    /\ UNCHANGED << dailyNoteEndTime,
                    now, posHeap, defaultBox, reads, vault, hist >>

\* FloatingBoxManager.removeBox(id)
RemoveBox(id) ==
    /\ Budget
    /\ IF id \in DOMAIN boxes
       THEN /\ widgets' = [ widgets EXCEPT ![boxes[id]] = destroy(@) ]
            /\ boxes' = [ i \in DOMAIN boxes \ { id } |-> boxes[i] ]
            /\ pluginBoxes' = CollectSettings(boxes', widgets')
            /\ savedData' = Blob(pluginBoxes', posHeap)
       ELSE UNCHANGED << widgets, boxes, pluginBoxes, savedData >>
    /\ events' = events - 1
    /\ last' = IF id \in DOMAIN boxes
               THEN Op("removeBox", id, boxes[id], NoPos, 1, FALSE)
               ELSE Op("removeBox", id, 0, NoPos, 0, FALSE)
    /\ UNCHANGED << dailyNoteEndTime,
                    now, posHeap, defaultBox, reads, vault, hist >>

MutUpdateSettings(box, newSettings) ==
    [ box EXCEPT !.settings =
        Merge([ DEFAULT_BOX EXCEPT !.position = box.settings.position ],
              newSettings) ]

\* FloatingBox.updateSettings
updateSettings(box, newSettings) ==
    [ box EXCEPT !.settings = Merge(box.settings, newSettings) ]

\* FloatingBoxManager.updateOneBoxSettings(boxId, newSettings)
UpdateOneBoxSettings(id, newSettings) ==
    /\ Budget
    /\ IF id \in DOMAIN boxes
       THEN LET w == boxes[id]
                box == updateSettings(widgets[w], newSettings)
                rd == StartRead(w, box, vault, FALSE)
            IN  /\ Cardinality(reads \cup { rd }) <= MaxReads
                /\ widgets' = [ widgets EXCEPT ![w] = box ]
                /\ reads' = reads \cup { rd }
                /\ pluginBoxes' = CollectSettings(boxes, widgets')
                /\ savedData' = Blob(pluginBoxes', posHeap)
       ELSE UNCHANGED << widgets, reads, pluginBoxes, savedData >>
    /\ events' = events - 1
    /\ last' = IF id \in DOMAIN boxes
               THEN OpWith("updateOneBoxSettings", id, boxes[id], newSettings,
                           1, FALSE)
               ELSE OpWith("updateOneBoxSettings", id, 0, newSettings, 0, FALSE)
    /\ UNCHANGED << dailyNoteEndTime,
                    now, boxes, posHeap, defaultBox, vault, hist >>

MutUpdateAllBoxes(v) ==
    { StartRead(w, widgets[w], v, FALSE) : w \in DOMAIN widgets }

\* FloatingBoxManager.updateAllBoxes: the new pending refreshes.
updateAllBoxes(v) ==
    { StartRead(boxes[id], widgets[boxes[id]], v, FALSE) : id \in DOMAIN boxes }

\* A markdown file is modified: the vault's "modify" handler of onload calls
\* manager.updateAllBoxes().  `content` is today's note afterwards (the same
\* content when another file was the one modified).
FileModified(content) ==
    LET v == [ vault EXCEPT !.content = content ]
    IN  /\ Budget
        /\ Cardinality(reads \cup updateAllBoxes(v)) <= MaxReads
        /\ vault' = v
        /\ reads' = reads \cup updateAllBoxes(v)
        /\ events' = events - 1
        /\ last' = Op("updateAllBoxes", "", 0, NoPos, 0, FALSE)
        /\ UNCHANGED << dailyNoteEndTime,
                        now, boxes, widgets, posHeap, pluginBoxes, defaultBox,
                        savedData, hist >>

\* Today's note is created or deleted, or the daily-notes core plugin is
\* switched on or off (no "modify" event).
HostChanges(enabled, exists) ==
    /\ Budget
    /\ << enabled, exists >> # << vault.enabled, vault.exists >>
    /\ vault' = [ vault EXCEPT !.enabled = enabled, !.exists = exists ]
    /\ events' = events - 1
    /\ last' = Op("host", "", 0, NoPos, 0, FALSE)
    /\ UNCHANGED << dailyNoteEndTime,
                    now, boxes, widgets, posHeap, pluginBoxes, defaultBox,
                    savedData, reads, hist >>

\* vault.read completes for a pending refresh: the content (or the failure)
\* it delivers is the vault's at this moment.
VaultRead(r) ==
    /\ r \in reads
    /\ r.state = "reading"
    /\ LET res == ReadResult(r.settings, vault)
       IN  reads' = (reads \ { r }) \cup
                    { [ r EXCEPT !.state = "resolved",
                                 !.content = IF vault.exists THEN vault.content
                                             ELSE << >>,
                                 !.readError = ~vault.exists,
                                 !.rejected = res.rejected,
                                 !.value = res.value ] }
    /\ last' = Op("vaultRead", "", r.w, NoPos, 0, FALSE)
    /\ UNCHANGED << dailyNoteEndTime,
                    now, boxes, widgets, posHeap, pluginBoxes, defaultBox,
                    savedData, vault, events, hist >>

\* FloatingBox.attachEventListeners, run by the constructor once createDOM
\* resolves.  On a widget destroy() has already run for, the document
\* listeners are added and the first element listener throws.
attachEventListeners(box) ==
    IF box.destroyed
    THEN [ box EXCEPT !.docListeners = TRUE ]
    ELSE [ box EXCEPT !.docListeners = TRUE, !.elListeners = TRUE ]

MutReadDone(r) ==
    /\ r \in reads
    /\ r.state = "resolved"
    /\ reads' = reads \ { r }
    /\ widgets' = [ w \in DOMAIN widgets |->
                      IF r.rejected THEN widgets[w]
                      ELSE [ widgets[w] EXCEPT !.elText = r.value ] ]
    /\ last' = OpWith("readDone", "", r.w, r, 0, r.rejected)
    /\ UNCHANGED << dailyNoteEndTime,
                    now, boxes, posHeap, pluginBoxes, defaultBox, savedData,
                    vault, events, hist >>

\* FloatingBox.updateContent resumes after `await getTodayNumber`: it writes
\* the text of the content div it looked up before the await.  For the
\* constructor's refresh, createDOM then resolves and the listeners are
\* attached; a rejection leaves the widget without listeners.
ReadDone(r) ==
    /\ r \in reads
    /\ r.state = "resolved"
    /\ reads' = reads \ { r }
    /\ IF r.rejected
       THEN /\ UNCHANGED widgets
            /\ last' = OpWith("readDone", "", r.w, r, 0, TRUE)
       ELSE /\ widgets' =
                 [ widgets EXCEPT ![r.w] =
                     LET b == [ @ EXCEPT !.elText = r.value ]
                     IN  IF r.initial THEN attachEventListeners(b) ELSE b ]
            /\ last' = OpWith("readDone", "", r.w, r, 0,
                              r.initial /\ widgets[r.w].destroyed)
    /\ UNCHANGED << dailyNoteEndTime,
                    now, boxes, posHeap, pluginBoxes, defaultBox, savedData,
                    vault, events, hist >>

---------------------------------------------------------------------------
(* Pointer events (FloatingBox.attachEventListeners and the handlers).      *)

\* this.dragOffset.x = clientX - this.settings.position.x
DragOffset(p, pos) == << p[1] - pos.x, p[2] - pos.y >>

\* FloatingBox.onBoxMouseDown, with `pos` the value of settings.position.
onBoxMouseDown(box, p, pos) ==
    IF detectResizeEdge(p, Rect(box)) # NoEdge
    THEN [ box EXCEPT !.isResizing = TRUE,
                      !.resizeEdge = detectResizeEdge(p, Rect(box)),
                      !.initialFontSize = box.settings.fontSize,
                      !.initialMousePos = p ]
    ELSE [ box EXCEPT !.isDragging = TRUE, !.dragOffset = DragOffset(p, pos) ]

\* FloatingBox.onDragStart.  `touches` is 0 for a MouseEvent and
\* e.touches.length for a TouchEvent; p is the pointer or touches[0].
onDragStart(box, p, pos, touches) ==
    IF touches = 0 /\ detectResizeEdge(p, Rect(box)) # NoEdge THEN box
    ELSE IF touches = 2 THEN box
    ELSE [ box EXCEPT !.isDragging = TRUE, !.dragOffset = DragOffset(p, pos) ]

\* "mousedown" on the element of widget w: onBoxMouseDown, then onDragStart.
MouseDown(w, p) ==
    LET box == widgets[w]
        pos == posHeap[box.settings.position]
        edge == detectResizeEdge(p, Rect(box))
    IN  /\ Budget
        /\ box.elListeners
        /\ Topmost(widgets, w, p)
        /\ widgets' = [ widgets EXCEPT ![w] =
                          onDragStart(onBoxMouseDown(box, p, pos), p, pos, 0) ]
        /\ hist' = [ hist EXCEPT ![w] =
                       IF edge = NoEdge
                       THEN [ @ EXCEPT !.downAt = p,
                                       !.posAtDown = << pos.x, pos.y >> ]
                       ELSE [ @ EXCEPT !.applied = FALSE ] ]
        /\ events' = events - 1
        /\ last' = Op("mousedown", box.id, w, p, 0, FALSE)
        /\ UNCHANGED << dailyNoteEndTime,
                        now, boxes, posHeap, pluginBoxes, defaultBox,
                        savedData, reads, vault >>

\* "touchstart" on the element of widget w: onDragStart.
TouchStart(w, p, touches) ==
    LET box == widgets[w]
        pos == posHeap[box.settings.position]
    IN  /\ Budget
        /\ box.elListeners
        /\ Topmost(widgets, w, p)
        /\ widgets' = [ widgets EXCEPT ![w] = onDragStart(box, p, pos, touches) ]
        /\ hist' = [ hist EXCEPT ![w] =
                       IF touches # 2
                       THEN [ @ EXCEPT !.downAt = p,
                                       !.posAtDown = << pos.x, pos.y >> ]
                       ELSE @ ]
        /\ events' = events - 1
        /\ last' = Op("touchstart", box.id, w, p, 0, FALSE)
        /\ UNCHANGED << dailyNoteEndTime,
                        now, boxes, posHeap, pluginBoxes, defaultBox,
                        savedData, reads, vault >>

\* The document "mousemove" listener of one widget.
onDocumentMouseMove(box, p) ==
    IF ~box.docListeners THEN box
    ELSE IF box.isResizing THEN onResizing(box, p)
    ELSE IF box.isDragging THEN onDragMove(box, p)
    ELSE box

\* Whether that listener reaches updatePosition() and updateContent().
MouseMoveWrites(box, p) ==
    /\ box.docListeners
    /\ IF box.isResizing THEN ResizeApplies(box, p) ELSE box.isDragging

\* The document "touchmove" listener of one widget: onDragMove.
onDocumentTouchMove(box, p) ==
    IF ~box.docListeners THEN box ELSE onDragMove(box, p)

TouchMoveWrites(box, p) == box.docListeners /\ box.isDragging

\* The widgets a move event at the document changes, and all the widgets
\* after their listeners have run.
MovedBy(name, p) ==
    { w \in DOMAIN widgets :
        IF name = "mousemove" THEN MouseMoveWrites(widgets[w], p)
        ELSE TouchMoveWrites(widgets[w], p) }

AfterMove(name, p) ==
    [ w \in DOMAIN widgets |->
        IF name = "mousemove" THEN onDocumentMouseMove(widgets[w], p)
        ELSE onDocumentTouchMove(widgets[w], p) ]


\* A pointer move delivered to every widget's document listener: the widgets
\* it moves write their position object and element and start a refresh.
PointerMove(name, p) ==
    LET moved == MovedBy(name, p)
        ws == AfterMove(name, p)
        started == { StartRead(w, ws[w], vault, FALSE) : w \in moved }
    IN  /\ Budget
        /\ Cardinality(reads \cup started) <= MaxReads
        /\ widgets' = ws
        /\ posHeap' =
             [ r \in DOMAIN posHeap |->
                 IF \E w \in moved : widgets[w].settings.position = r
                 THEN LET w == CHOOSE m \in moved :
                                  widgets[m].settings.position = r
                      IN  [ x |-> ws[w].elLeft, y |-> ws[w].elTop ]
                 ELSE posHeap[r] ]
        /\ reads' = reads \cup started
        /\ hist' = [ w \in DOMAIN hist |->
                       IF w \in moved /\ widgets[w].isResizing /\ name = "mousemove"
                       THEN [ hist[w] EXCEPT !.applied = TRUE,
                                !.padding = widgets[w].settings.padding ]
                       ELSE hist[w] ]
        /\ events' = events - 1
        /\ last' = Op(name, "", 0, IF moved = {} THEN NoPos ELSE p, 0, FALSE)
        /\ UNCHANGED << dailyNoteEndTime,
                        now, boxes, pluginBoxes, defaultBox, savedData, vault >>

MouseMove(p) == PointerMove("mousemove", p)

TouchMove(p) == PointerMove("touchmove", p)

MutOnResizeEnd(box) == [ box EXCEPT !.isResizing = FALSE ]

\* FloatingBox.onResizeEnd (the save it issues is counted by the action).
onResizeEnd(box) ==
    IF box.isResizing
    THEN [ box EXCEPT !.isResizing = FALSE, !.resizeEdge = NoEdge,
                      !.initialFontSize = 0, !.initialMousePos = NoPos ]
    ELSE box

\* FloatingBox.onDragEnd
onDragEnd(box) ==
    IF box.isDragging THEN [ box EXCEPT !.isDragging = FALSE ] ELSE box

\* The document "mouseup" listeners of one widget: onResizeEnd, onDragEnd.
onDocumentMouseUp(box) ==
    IF box.docListeners THEN onDragEnd(onResizeEnd(box)) ELSE box

MouseUpSaves(box) ==
    IF ~box.docListeners THEN 0
    ELSE (IF box.isResizing THEN 1 ELSE 0) + (IF box.isDragging THEN 1 ELSE 0)

\* The document "touchend" listener of one widget: onDragEnd.
onDocumentTouchEnd(box) ==
    IF box.docListeners THEN onDragEnd(box) ELSE box

TouchEndSaves(box) ==
    IF box.docListeners /\ box.isDragging THEN 1 ELSE 0

RECURSIVE SumOver(_, _)
SumOver(f, S) ==
    IF S = {} THEN 0
    ELSE LET x == CHOOSE y \in S : TRUE
         IN  f[x] + SumOver(f, S \ { x })

\* A pointer release delivered to every widget's document listener; each
\* gesture it ends calls manager.saveAllBoxesSettingsToPluginSettings().
PointerUp(name) ==
    LET ws == [ w \in DOMAIN widgets |->
                  IF name = "mouseup" THEN onDocumentMouseUp(widgets[w])
                  ELSE onDocumentTouchEnd(widgets[w]) ]
        k == SumOver([ w \in DOMAIN widgets |->
                         IF name = "mouseup" THEN MouseUpSaves(widgets[w])
                         ELSE TouchEndSaves(widgets[w]) ],
                     DOMAIN widgets)
    IN  /\ Budget
        /\ widgets' = ws
        /\ IF k > 0
           THEN /\ pluginBoxes' = CollectSettings(boxes, ws)
                /\ savedData' = Blob(pluginBoxes', posHeap)
           ELSE UNCHANGED << pluginBoxes, savedData >>
        /\ events' = events - 1
        /\ last' = Op(name, "", 0, NoPos, k, FALSE)
        /\ UNCHANGED << dailyNoteEndTime,
                        now, boxes, posHeap, defaultBox, reads, vault, hist >>

MouseUp == PointerUp("mouseup")

TouchEnd == PointerUp("touchend")

\* getResizeCursorStyle: the cursor of an edge.
getResizeCursorStyle(edge) ==
    IF edge \in { "n", "s" } THEN "ns-resize"
    ELSE IF edge \in { "e", "w" } THEN "ew-resize"
    ELSE IF edge \in { "ne", "sw" } THEN "nesw-resize"
    ELSE "nwse-resize"

MutSetCursorStyle(box, p) ==
    [ box EXCEPT !.isResizing = detectResizeEdge(p, Rect(box)) # NoEdge,
                 !.resizeEdge = detectResizeEdge(p, Rect(box)) ]

\* setCursorStyle, the element's "mousemove" listener: it returns at once
\* when the widget has not seen the pointer enter or is resizing, and
\* otherwise sets the cursor of the edge under the pointer, or "move".
setCursorStyle(box, p) ==
    IF ~box.isMouseOver \/ box.isResizing THEN box
    ELSE LET edge == detectResizeEdge(p, Rect(box))
         IN  [ box EXCEPT !.elCursor =
                 IF edge # NoEdge THEN getResizeCursorStyle(edge) ELSE "move" ]

\* setCursorStyle calls e.stopPropagation() when it finds an edge: the event
\* then never reaches the document's listeners.
StopsPropagation(box, p) ==
    /\ box.isMouseOver
    /\ ~box.isResizing
    /\ detectResizeEdge(p, Rect(box)) # NoEdge

\* The element's "mouseenter" listener.
onMouseEnter(box) == [ box EXCEPT !.isMouseOver = TRUE ]

\* The element's "mouseleave" listener.
onMouseLeave(box) ==
    IF ~box.isResizing
    THEN [ box EXCEPT !.isMouseOver = FALSE, !.elCursor = "move" ]
    ELSE box

\* The pointer comes over the element of the widget w: the browser
\* dispatches "mouseenter" to the element, whose listener runs if it has been
\* attached.  pointerOver is the browser's record of the element the pointer
\* is over.
PointerEnter(w) ==
    LET box == widgets[w]
    IN  /\ Budget
        /\ box.elAttached
        /\ \A o \in DOMAIN widgets : ~widgets[o].pointerOver
        /\ widgets' = [ widgets EXCEPT ![w] =
                          [ (IF box.elListeners THEN onMouseEnter(box) ELSE box)
                              EXCEPT !.pointerOver = TRUE ] ]
        /\ events' = events - 1
        /\ last' = Op("mouseenter", box.id, w, NoPos, 0, FALSE)
        /\ UNCHANGED << dailyNoteEndTime,
                        now, boxes, posHeap, pluginBoxes, defaultBox,
                        savedData, reads, vault, hist >>

\* The pointer leaves the element of the widget w: "mouseleave".
PointerLeave(w) ==
    LET box == widgets[w]
    IN  /\ Budget
        /\ box.elAttached
        /\ box.pointerOver
        /\ widgets' = [ widgets EXCEPT ![w] =
                          [ (IF box.elListeners THEN onMouseLeave(box) ELSE box)
                              EXCEPT !.pointerOver = FALSE ] ]
        /\ events' = events - 1
        /\ last' = Op("mouseleave", box.id, w, NoPos, 0, FALSE)
        /\ UNCHANGED << dailyNoteEndTime,
                        now, boxes, posHeap, pluginBoxes, defaultBox,
                        savedData, reads, vault, hist >>

\* The pointer moves to p over the element of the widget w: "mousemove" is
\* dispatched to the element, where setCursorStyle runs, and bubbles to the
\* document, where every widget's listener runs, unless setCursorStyle
\* stopped it.
HoverMove(w, p) ==
    LET box == widgets[w]
        stopped == box.elListeners /\ StopsPropagation(box, p)
        hovered == IF box.elListeners THEN setCursorStyle(box, p) ELSE box
        moved == IF stopped THEN {} ELSE MovedBy("mousemove", p)
        ws == IF stopped THEN [ widgets EXCEPT ![w] = hovered ]
              ELSE [ o \in DOMAIN widgets |->
                       IF o = w
                       THEN onDocumentMouseMove(hovered, p)
                       ELSE AfterMove("mousemove", p)[o] ]
        started == { StartRead(o, ws[o], vault, FALSE) : o \in moved }
    IN  /\ Budget
        /\ box.pointerOver
        /\ Topmost(widgets, w, p)
        /\ Cardinality(reads \cup started) <= MaxReads
        /\ widgets' = ws
        /\ posHeap' =
             [ r \in DOMAIN posHeap |->
                 IF \E o \in moved : widgets[o].settings.position = r
                 THEN LET o == CHOOSE m \in moved :
                                  widgets[m].settings.position = r
                      IN  [ x |-> ws[o].elLeft, y |-> ws[o].elTop ]
                 ELSE posHeap[r] ]
        /\ reads' = reads \cup started
        /\ hist' = [ o \in DOMAIN hist |->
                       IF o \in moved /\ widgets[o].isResizing
                       THEN [ hist[o] EXCEPT !.applied = TRUE,
                                !.padding = widgets[o].settings.padding ]
                       ELSE hist[o] ]
        /\ events' = events - 1
        /\ last' = Op("hovermove", box.id, w, p, 0, FALSE)
        /\ UNCHANGED << dailyNoteEndTime,
                        now, boxes, pluginBoxes, defaultBox, savedData, vault >>

\* A pointer-down over the element the pointer is over.
HoverDown(w, p) == widgets[w].pointerOver /\ MouseDown(w, p)

\* An onChange handler of FloatingNumberSettingTab.display for the box
\* `id`: it assigns the new value to one field of boxSettings, the record of
\* plugin.settings.boxes the tab was displayed from, and passes that whole
\* record to updateOneBoxSettings.  The tab is taken to show the current
\* records (display() runs when it opens and after a toggle, a dropdown
\* change or a new box); the handler runs when the control's value changes.
SettingOnChange(id, field, value) ==
    /\ id \in DOMAIN pluginBoxes
    /\ pluginBoxes[id][field] # value
    /\ IF id \in DOMAIN boxes
       THEN UpdateOneBoxSettings(id, [ pluginBoxes[id] EXCEPT ![field] = value ])
       ELSE /\ Budget
            /\ pluginBoxes' = [ pluginBoxes EXCEPT ![id][field] = value ]
            /\ events' = events - 1
            /\ last' = OpWith("updateOneBoxSettings", id, 0,
                              [ pluginBoxes[id] EXCEPT ![field] = value ],
                              0, FALSE)
            /\ UNCHANGED << dailyNoteEndTime,
                            now, boxes, widgets, posHeap, defaultBox,
                            savedData, reads, vault, hist >>

\* The "Use Daily Note" toggle.
UseDailyNoteOnChange(id, value) == SettingOnChange(id, "useDailyNote", value)

\* The "Custom Note Path" text field, shown while useDailyNote is off.
CustomNotePathOnChange(id, value) ==
    /\ id \in DOMAIN pluginBoxes
    /\ ~pluginBoxes[id].useDailyNote
    /\ SettingOnChange(id, "customNotePath", value)

\* The "Data Type" dropdown.
DataTypeOnChange(id, value) == SettingOnChange(id, "dataType", value)

\* The "Dataview Field" text field, shown while the data type is dataview.
DataviewFieldOnChange(id, value) ==
    /\ id \in DOMAIN pluginBoxes
    /\ pluginBoxes[id].dataType = "dataview"
    /\ SettingOnChange(id, "dataviewField", value)

---------------------------------------------------------------------------
(* Inputs.                                                                  *)

Pt(x, y) == << Px(x), Px(y) >>

\* Notes (today's daily note), as character sequences.
TaskLine == CompletedMarker \o << "a" >>
OpenLine == UncompletedMarker \o << "b" >>
NoteA == TaskLine \o << "\n" >> \o OpenLine
NoteB == TaskLine \o << "\n" >> \o TaskLine \o << "\n", "F", ":", ":", " ", "7" >>

HostUp(content) == [ enabled |-> TRUE, exists |-> TRUE, content |-> content ]

\* What data.json held when the plugin loaded: a fresh install (the default
\* box alone), or the default box and one created earlier.
FreshInstall ==
    << << "default", DEFAULT_BOX, DEFAULT_POSITION, Pt(60, 40) >> >>

SavedBox ==
    [ DEFAULT_BOX EXCEPT !.zIndex = BASE_Z_INDEX - 1, !.noDataMessage = "--",
                         !.dataType = "dataview",
                         !.dataviewField = << "F" >> ]

TwoBoxes ==
    FreshInstall \o
    << << generateUniqueId(0), SavedBox, [ x |-> Px(300), y |-> Px(100) ],
          Pt(60, 40) >> >>

EmptyPartial == [ f \in {} |-> 0 ]

---------------------------------------------------------------------------
(* Spec: the manager, its registry and its widgets.                         *)

\* Box ids: the default box, one created in an earlier session, and the ids
\* this session can generate.
Ids == { "default" } \cup { generateUniqueId(t) : t \in 0..MaxClock }

Partials == { EmptyPartial, [ noDataMessage |-> "--" ] }

\* Pointer positions: inside the default box and on its right edge.
Points == { Pt(120, 120), Pt(158, 120) }

Init ==
    \E loaded \in { FreshInstall, TwoBoxes } :
        InitFrom(loaded, HostUp(NoteA), MaxEvents)

Next ==
    \/ \E t \in 1..MaxClock : CreateBox(t, Pt(60, 40))
    \/ \E id \in Ids : RemoveBox(id)
    \/ \E id \in Ids, partial \in Partials : UpdateOneBoxSettings(id, partial)
    \/ \E content \in { NoteA, NoteB } : FileModified(content)
    \/ \E r \in reads : VaultRead(r)
    \/ \E r \in reads : ReadDone(r)
    \/ \E w \in DOMAIN widgets, p \in Points : MouseDown(w, p)
    \/ \E p \in Points : MouseMove(p)
    \/ MouseUp

Spec == Init /\ [][Next]_vars

---------------------------------------------------------------------------
(* Properties of the manager (checked under Spec; C5 under SpecGesture).     *)

\* The widgets destroy() has run for.
Destroyed == { w \in DOMAIN widgets : widgets[w].destroyed }

\* C4: after removeBox(id) the box's element is out of the document and the
\* id is absent from the registry, from plugin.settings.boxes and from the
\* saved data; and a later file-change event (updateAllBoxes) starts no
\* refresh for a removed box and leaves its widget, text included, as it was.
C4_RemovedStaysRemoved ==
    [][ /\ (last'.op = "removeBox" /\ last'.w # 0) =>
              /\ ~widgets'[last'.w].elAttached
              /\ last'.id \notin DOMAIN boxes'
              /\ last'.id \notin DOMAIN pluginBoxes'
              /\ last'.id \notin DOMAIN savedData'
        /\ last'.op = "updateAllBoxes" =>
              \A w \in Destroyed :
                  /\ widgets'[w] = widgets[w]
                  /\ { r \in reads' : r.w = w } \subseteq reads ]_vars

\* A file change refreshes the remaining box after another was removed.
C4_Witness ==
    /\ last.op = "updateAllBoxes"
    /\ Destroyed # {}
    /\ \E r \in reads : r.w \in Registered

\* No registered box is in the middle of a drag or a resize.
NoGesture ==
    \A w \in Registered : ~widgets[w].isDragging /\ ~widgets[w].isResizing

\* What updateOneBoxSettings(id, {}) on a registered box must leave alone: the
\* values of plugin.settings.boxes and the saved data.
EmptyUpdateKeepsPersisted ==
    (last'.op = "updateOneBoxSettings" /\ last'.w # 0 /\ last'.arg = EmptyPartial)
        => /\ Blob(pluginBoxes', posHeap') = Blob(pluginBoxes, posHeap)
           /\ savedData' = savedData

\* C5, as stated: updateOneBoxSettings(id, {}) leaves the persisted settings
\* unchanged in every reachable state, a drag or resize in progress included.
C5_EmptyUpdateAnyState == [][ EmptyUpdateKeepsPersisted ]_vars

\* C5, amended: updateOneBoxSettings(id, {}) leaves the persisted settings
\* unchanged when no registered box is being dragged or resized.
C5_EmptyUpdateWhenIdle == [][ NoGesture => EmptyUpdateKeepsPersisted ]_vars

\* An empty update of a box that was moved by a completed drag.
C5_Witness ==
    /\ last.op = "updateOneBoxSettings"
    /\ last.w # 0
    /\ last.arg = EmptyPartial
    /\ NoGesture
    /\ savedData[last.id].position # DEFAULT_POSITION

\* C6: every widget createBox or loadBoxes constructed and removeBox has not
\* destroyed is the registry's entry for its id: createBox never returns an
\* id the registry already holds, so it never replaces a widget.
C6_CreateNeverReplaces ==
    \A w \in DOMAIN widgets :
        ~widgets[w].destroyed =>
            /\ widgets[w].id \in DOMAIN boxes
            /\ boxes[widgets[w].id] = w

\* C7: the z-index createBox assigns is strictly lower than the z-index of
\* every box that was registered when it was called.
C7_NewBoxLowest ==
    [][ last'.op = "createBox" =>
          \A id \in DOMAIN boxes :
              widgets'[last'.w].settings.zIndex
                  < getSettings(widgets[boxes[id]]).zIndex ]_vars

\* A box created after a creation and a removal, with two boxes above it.
C7_Witness ==
    /\ last.op = "createBox"
    /\ Destroyed # {}
    /\ Cardinality(DOMAIN boxes) >= 2
    /\ \A id \in DOMAIN boxes \ { last.id } :
          widgets[last.w].elZIndex < widgets[boxes[id]].elZIndex

\* The operations that update a box and persist: a settings update and the
\* end of a drag or resize.
PersistingOps == { "updateOneBoxSettings", "mouseup", "touchend" }

\* C15: persistence is throttled: of the updates of one burst only one
\* writes to the settings store.  Events have no minimum spacing, and two
\* consecutive updates between which the clock has not advanced are in one
\* burst: when the first of them has written, the second does not write
\* again.
C15_BurstWritesOnce ==
    [][ ( /\ now' = now
          /\ last.op \in PersistingOps
          /\ last'.op \in PersistingOps
          /\ last.saves > 0 )
        => last'.saves = 0 ]_vars

\* C17: a content refresh that completes after its box was destroyed finds
\* the widget gone from the registry: it leaves the text of the destroyed
\* box as it was and raises no error.
C17_StaleReadGuarded ==
    [][ ( /\ last'.op = "readDone"
          /\ ~last'.arg.rejected
          /\ widgets[last'.w].destroyed )
        => /\ widgets'[last'.w].elText = widgets[last'.w].elText
           /\ ~last'.threw ]_vars

\* C27: a destroyed widget with no refresh still in flight has none of its
\* listeners registered, on the document or on its element.
C27_TeardownDetachesAll ==
    \A w \in DOMAIN widgets :
        (widgets[w].destroyed /\ ~\E r \in reads : r.w = w) =>
            ~widgets[w].docListeners /\ ~widgets[w].elListeners

\* A widget destroyed after its listeners were attached has none left.
C27_DestroyedAfterAttach ==
    \E w \in DOMAIN widgets :
        /\ widgets[w].destroyed
        /\ ~widgets[w].docListeners
        /\ widgets[w].elText # ""
        /\ ~\E r \in reads : r.w = w

\* C29: updateAllBoxes starts a refresh for every registered widget and for
\* no other, and writes nothing itself; the completion of a read changes
\* nothing of any widget but the one it belongs to, keeps that widget's
\* settings, and leaves every other read in flight as it was.
C29_IndependentRefresh ==
    [][ /\ last'.op = "updateAllBoxes" =>
              /\ \A w \in Registered :
                    \E r \in reads' :
                        r.w = w /\ r.state = "reading" /\ ~r.initial
              /\ \A r \in reads' \ reads : r.w \in Registered
              /\ widgets' = widgets
        /\ last'.op = "readDone" =>
              LET r == last'.arg
              IN  /\ \A o \in DOMAIN widgets \ { r.w } : widgets'[o] = widgets[o]
                  /\ widgets'[r.w].settings = widgets[r.w].settings
                  /\ posHeap' = posHeap
                  /\ reads' = reads \ { r } ]_vars

\* The read of the second widget has completed and changed its text while
\* the read the same updateAllBoxes started for the first has not yet
\* returned from the vault: the second did not wait for the first.
C29_Witness ==
    /\ last.op = "readDone"
    /\ last.w = 2
    /\ ~last.arg.initial
    /\ widgets[2].elText # widgets[1].elText
    /\ \E r \in reads : r.w = 1 /\ ~r.initial /\ r.state = "reading"

\* What a refresh started now for the widget w would display: the value of
\* its current settings on the note as it now is.
LatestValue(w) ==
    IF getTodayDailyNote(vault)
    THEN ReadResult(ResolverView(widgets[w].settings), vault).value
    ELSE NoNoteResult(widgets[w].settings)

\* C32: when a refresh other than the constructor's completes for a
\* registered box and leaves none of its refreshes in flight, the box shows
\* the value of the most recently started one: the value of its current
\* settings on the current note.
C32_LatestRefreshShown ==
    \A w \in Registered :
        ( /\ last.op = "readDone"
          /\ last.w = w
          /\ ~last.arg.initial
          /\ ~last.arg.rejected
          /\ ~\E r \in reads : r.w = w )
        => widgets[w].elText = LatestValue(w)

\* A refresh started by a file change has completed and the box shows the
\* value of the changed note.
C32_InOrderWitness ==
    \E w \in Registered :
        /\ last.op = "readDone"
        /\ last.w = w
        /\ ~last.arg.initial
        /\ ~\E r \in reads : r.w = w
        /\ vault.content = NoteB
        /\ widgets[w].elText = LatestValue(w)
        /\ widgets[w].elText # ReadResult(ResolverView(widgets[w].settings),
                                          HostUp(NoteA)).value

\* C34: after loadBoxes and after every createBox, removeBox and
\* updateOneBoxSettings, plugin.settings.boxes and the manager's registry
\* hold the same ids.
C34_SettingsIdsAreRegistryIds ==
    (last.op \in { "load", "createBox", "removeBox", "updateOneBoxSettings" })
        => DOMAIN pluginBoxes = DOMAIN boxes

\* A box has been created after another was removed, and both maps hold
\* the ids of the two boxes that remain.
C34_Witness ==
    /\ last.op = "createBox"
    /\ Destroyed # {}
    /\ Cardinality(DOMAIN boxes) = 2
    /\ DOMAIN pluginBoxes = DOMAIN boxes

\* C35: removeBox and updateOneBoxSettings with an id that is not in the
\* registry change no widget, no registry entry, no settings record and no
\* position object, start no refresh and write nothing to the store.
C35_UnknownIdChangesNothing ==
    [][ ( /\ last'.op \in { "removeBox", "updateOneBoxSettings" }
          /\ last'.id \notin DOMAIN boxes )
        => /\ UNCHANGED << widgets, boxes, pluginBoxes, posHeap, savedData,
                           reads, defaultBox >>
           /\ last'.saves = 0 ]_vars

\* The Delete button's second call: updateOneBoxSettings for the id that
\* removeBox has just taken out of the registry.
C35_Witness ==
    /\ last.op = "updateOneBoxSettings"
    /\ last.w = 0
    /\ last.id \notin DOMAIN boxes
    /\ \E w \in Destroyed : widgets[w].id = last.id
    /\ DOMAIN savedData = DOMAIN boxes

\* C36: createBox leaves the settings record it is given, the shared
\* DEFAULT_SETTINGS.boxes.default, as it was, zIndex included.
C36_CreateKeepsArgument ==
    [][ last'.op = "createBox" => defaultBox' = defaultBox ]_vars

\* After two createBox calls the shared record differs from the shipped
\* default in zIndex only.
C36_OnlyZIndexWritten ==
    /\ last.op = "createBox"
    /\ defaultBox.zIndex = DEFAULT_BOX.zIndex - 2
    /\ defaultBox = [ DEFAULT_BOX EXCEPT !.zIndex = defaultBox.zIndex ]

\* C26: updateOneBoxSettings(id, partial) on a registered box gives exactly
\* the fields of partial their new values in the widget's settings, keeps
\* every other field of that widget, and changes no other widget's settings
\* and no position object.
C26_MergesPartial ==
    [][ (last'.op = "updateOneBoxSettings" /\ last'.w # 0) =>
          LET w == last'.w
              partial == last'.arg
          IN  /\ DOMAIN widgets'[w].settings = DOMAIN widgets[w].settings
              /\ \A f \in DOMAIN widgets[w].settings :
                    widgets'[w].settings[f] =
                      IF f \in DOMAIN partial THEN partial[f]
                      ELSE widgets[w].settings[f]
              /\ \A o \in DOMAIN widgets \ { w } :
                    widgets'[o].settings = widgets[o].settings
              /\ posHeap' = posHeap ]_vars

\* A one-field partial has just been merged into one of two widgets.
C26_Witness ==
    /\ last.op = "updateOneBoxSettings"
    /\ last.w # 0
    /\ last.arg = [ noDataMessage |-> "--" ]
    /\ widgets[last.w].settings.noDataMessage = "--"
    /\ \E o \in DOMAIN widgets \ { last.w } :
          /\ ~widgets[o].destroyed
          /\ widgets[o].settings.noDataMessage # "--"

---------------------------------------------------------------------------
(* SpecGesture: one box, the pointer, and settings changes during gestures. *)

\* Automatic sizes of the unsized element (never square by themselves).
AutoSizes == { Pt(60, 40), Pt(45, 31) }

\* Pointer positions around the default box at (100, 100): inside it, on its
\* right edge, and where a resize from the right edge yields a raw size of
\* 36 px, 356 px, 1156 px (above the maximum) and 30 px (below the minimum);
\* the last one is also in the top left corner of the box.
GesturePoints ==
    { Pt(120, 120), Pt(158, 120), Pt(140, 120), Pt(300, 130), Pt(700, 120),
      Pt(107, 107) }

GesturePartials == { EmptyPartial, [ padding |-> 20 ] }

InitGesture ==
    \E size \in AutoSizes :
        InitFrom(<< << "default", DEFAULT_BOX, DEFAULT_POSITION, size >> >>,
                 HostUp(NoteA), MaxGestureEvents)

NextGesture ==
    \/ \E w \in DOMAIN widgets, p \in GesturePoints : MouseDown(w, p)
    \/ \E p \in GesturePoints : MouseMove(p)
    \/ MouseUp
    \/ \E w \in DOMAIN widgets, p \in GesturePoints, touches \in 1..2 :
          TouchStart(w, p, touches)
    \/ \E p \in GesturePoints : TouchMove(p)
    \/ TouchEnd
    \/ \E partial \in GesturePartials : UpdateOneBoxSettings("default", partial)
    \/ \E r \in reads : VaultRead(r)
    \/ \E r \in reads : ReadDone(r)

SpecGesture == InitGesture /\ [][NextGesture]_vars

\* The widgets whose document listener ran onDragMove for the last move.
DragMoved ==
    { w \in DOMAIN widgets :
        /\ last.op \in { "mousemove", "touchmove" }
        /\ widgets[w].docListeners
        /\ widgets[w].isDragging
        /\ last.op = "mousemove" => ~widgets[w].isResizing }

\* C1: after a drag-move to p of a drag that began with the pointer at
\* downAt and the box at posAtDown, the box is at p - (downAt - posAtDown),
\* whatever moves and content refreshes came in between.
C1_DragOffsetInvariance ==
    \A w \in DragMoved :
        LET x == last.p[1] - (hist[w].downAt[1] - hist[w].posAtDown[1])
            y == last.p[2] - (hist[w].downAt[2] - hist[w].posAtDown[2])
        IN  /\ posHeap[widgets[w].settings.position] = [ x |-> x, y |-> y ]
            /\ widgets[w].elLeft = x
            /\ widgets[w].elTop = y

\* A second drag-move away from the grab point, a refresh still pending.
C1_Witness ==
    \E w \in DragMoved :
        /\ last.p # hist[w].downAt
        /\ << widgets[w].elLeft, widgets[w].elTop >> # hist[w].posAtDown
        /\ reads # {}
        /\ widgets[w].elText # ""

\* A box is square and its size lies in [2 * padding + 16, 1000] px.
SquareInRange(box) ==
    /\ box.elWidth = box.elHeight
    /\ box.elWidth >= Px(2 * box.settings.padding + 16)
    /\ box.elWidth <= Px(1000)

\* The widgets whose resize gesture the mouse-up of this step ends.
ResizeEnds(w) ==
    /\ last'.op = "mouseup"
    /\ widgets[w].docListeners
    /\ widgets[w].isResizing

\* C2, as stated: after any resize gesture, from any starting width and
\* height, the box is square and its size lies in [2 * padding + 16, 1000].
C2_SquareAfterAnyResize ==
    [][ \A w \in DOMAIN widgets :
          ResizeEnds(w) => SquareInRange(widgets'[w]) ]_vars

\* C2, amended: after a resize gesture in which at least one resize-move was
\* applied (its raw size within [2 * padding + 16, 1000]) and the padding has
\* not been changed since that move, the box is square and its size lies in
\* [2 * padding + 16, 1000].
C2_SquareAfterAppliedResize ==
    [][ \A w \in DOMAIN widgets :
          ( /\ ResizeEnds(w)
            /\ hist[w].applied
            /\ hist[w].padding = widgets[w].settings.padding )
          => SquareInRange(widgets'[w]) ]_vars

\* A resize gesture that changed the size has just ended.
C2_Witness ==
    /\ last.op = "mouseup"
    /\ last.saves > 0
    /\ \E w \in DOMAIN widgets :
          /\ hist[w].applied
          /\ hist[w].padding = widgets[w].settings.padding
          /\ ~widgets[w].isResizing
          /\ widgets[w].elWidth = widgets[w].elHeight

\* Twice the centre of a box's rectangle.
Centre2(box) ==
    << box.elLeft + box.elLeft + box.elWidth,
       box.elTop + box.elTop + box.elHeight >>

\* C3: every resize-move leaves the centre of the box's rectangle where it
\* was before the event.
C3_ResizeKeepsCentre ==
    [][ last'.op = "mousemove" =>
          \A w \in DOMAIN widgets :
              (widgets[w].docListeners /\ widgets[w].isResizing)
                  => Centre2(widgets'[w]) = Centre2(widgets[w]) ]_vars

\* A resize-move has just changed the size and the position of a box.
C3_Witness ==
    /\ last.op = "mousemove"
    /\ last.p # NoPos
    /\ \E w \in DOMAIN widgets :
          /\ widgets[w].isResizing
          /\ hist[w].applied
          /\ widgets[w].elWidth = widgets[w].elHeight
          /\ widgets[w].elLeft # DEFAULT_POSITION.x

\* C12: Dragging and Resizing exclude each other: isDragging and isResizing
\* are never both true, under any sequence of mouse and touch events.
C12_DragResizeExclusive ==
    \A w \in DOMAIN widgets :
        ~(widgets[w].isDragging /\ widgets[w].isResizing)

\* A widget is Idle.
Idle(box) == ~box.isDragging /\ ~box.isResizing

\* The zone under a pointer: the sides of the rectangle that are less than
\* 8 px away, the vertical one first ("" when none is).
Zone(p, box) ==
    LET near(d) == d < Px(RESIZE_HANDLE)
        v == IF near(p[2] - box.elTop) THEN "n"
             ELSE IF near(box.elTop + box.elHeight - p[2]) THEN "s"
             ELSE ""
        h == IF near(p[1] - box.elLeft) THEN "w"
             ELSE IF near(box.elLeft + box.elWidth - p[1]) THEN "e"
             ELSE ""
    IN  v \o h

\* What a pointer-down at p on an Idle box must lead to: Resizing with the
\* zone as active edge and the font size and pointer position recorded, or
\* Dragging when p is in no zone.
EntersZoneState(before, after, p) ==
    IF Zone(p, before) # ""
    THEN /\ after.isResizing
         /\ ~after.isDragging
         /\ after.resizeEdge = Zone(p, before)
         /\ after.initialFontSize = before.settings.fontSize
         /\ after.initialMousePos = p
    ELSE /\ after.isDragging
         /\ ~after.isResizing

\* C13, as stated: from Idle, every pointer-down (mouse-down or
\* touch-start) in the 8 px band of an edge or corner enters Resizing with
\* that zone as active edge, and every other pointer-down enters Dragging.
C13_PointerDownByZone ==
    [][ ( /\ last'.op \in { "mousedown", "touchstart" }
          /\ Idle(widgets[last'.w]) )
        => EntersZoneState(widgets[last'.w], widgets'[last'.w], last'.p) ]_vars

\* C13, amended: from Idle, every mouse-down less than 8 px from an edge
\* enters Resizing (not Dragging) with the zone as active edge and records
\* the font size and the pointer position, and every other mouse-down enters
\* Dragging.
C13_MouseDownByZone ==
    [][ ( /\ last'.op = "mousedown"
          /\ Idle(widgets[last'.w]) )
        => EntersZoneState(widgets[last'.w], widgets'[last'.w], last'.p) ]_vars

\* A mouse-down in the top left corner has just started a resize.
C13_Witness ==
    /\ last.op = "mousedown"
    /\ widgets[last.w].isResizing
    /\ ~widgets[last.w].isDragging
    /\ widgets[last.w].resizeEdge = "nw"
    /\ widgets[last.w].initialMousePos = last.p

\* A widget is back in Idle with nothing left of a resize, and the data
\* written to the settings store holds its position and font size.
IdleAndPersisted(box, heap, saved, saves) ==
    /\ Idle(box)
    /\ box.resizeEdge = NoEdge
    /\ box.initialFontSize = 0
    /\ box.initialMousePos = NoPos
    /\ saves > 0
    /\ box.id \in DOMAIN saved
    /\ saved[box.id].position = heap[box.settings.position]
    /\ saved[box.id].fontSize = box.settings.fontSize

\* C14, as stated: a pointer-up (mouse-up or touch-end) while the widget is
\* Dragging or Resizing returns it to Idle, with the resize edge and the
\* resize-start values cleared, and persists the registry with the widget's
\* final position and font size.
C14_PointerUpEndsGesture ==
    [][ \A w \in DOMAIN widgets :
          ( /\ last'.op \in { "mouseup", "touchend" }
            /\ widgets[w].docListeners
            /\ ~Idle(widgets[w]) )
          => IdleAndPersisted(widgets'[w], posHeap', savedData',
                              last'.saves) ]_vars

\* C14, amended: a mouse-up while the widget is Dragging or Resizing, and a
\* touch-end while it is Dragging and not Resizing, return it to Idle, with
\* the resize edge and the resize-start values cleared, and persist the
\* registry with the widget's final position and font size.
C14_MouseUpEndsGesture ==
    [][ \A w \in DOMAIN widgets :
          ( /\ widgets[w].docListeners
            /\ w \in Registered
            /\ \/ last'.op = "mouseup" /\ ~Idle(widgets[w])
               \/ /\ last'.op = "touchend"
                  /\ widgets[w].isDragging
                  /\ ~widgets[w].isResizing )
          => IdleAndPersisted(widgets'[w], posHeap', savedData',
                              last'.saves) ]_vars

\* A mouse-up has just ended a gesture that moved the box, and the new
\* position is in the settings store.
C14_Witness ==
    /\ last.op = "mouseup"
    /\ last.saves > 0
    /\ \E w \in DOMAIN widgets :
          /\ Idle(widgets[w])
          /\ widgets[w].resizeEdge = NoEdge
          /\ widgets[w].id \in DOMAIN savedData
          /\ savedData[widgets[w].id].position # DEFAULT_POSITION
          /\ savedData[widgets[w].id].position =
                 posHeap[widgets[w].settings.position]

\* C16: the widget shares no reference with the persisted copy of its
\* settings: a drag-move or resize-move, which changes the widget's live
\* settings and saves nothing, leaves plugin.settings.boxes as it was.
C16_MoveKeepsPersistedCopy ==
    [][ last'.op \in { "mousemove", "touchmove" }
        => Blob(pluginBoxes', posHeap') = Blob(pluginBoxes, posHeap) ]_vars

\* The document listener of widget w runs onResizing past its early return
\* on a mouse-move.
Resizes(w) ==
    /\ widgets[w].docListeners
    /\ ResizeGuard(widgets[w])

\* C21: during a resize the size is clamped to [2 * padding + 16, 1000]: a
\* resize-move whose raw size is above 1000 sets the width and height to
\* 1000, and one whose raw size is below the minimum sets them to the
\* minimum.
C21_ClampedWhenOutOfRange ==
    [][ \A p \in GesturePoints, w \in DOMAIN widgets :
          (MouseMove(p) /\ Resizes(w)) =>
            LET raw == NewSizeRaw(widgets[w], p)
                min == Px(2 * widgets[w].settings.padding + 16)
            IN  /\ raw > Px(1000) =>
                     /\ widgets'[w].elWidth = Px(1000)
                     /\ widgets'[w].elHeight = Px(1000)
                /\ raw < min =>
                     /\ widgets'[w].elWidth = min
                     /\ widgets'[w].elHeight = min ]_vars

\* The interior of a box, in half px: its width minus twice the padding.
Interior(box) == box.elWidth - Px(2 * box.settings.padding)

\* The mouse-move of this step is a resize-move that changes widget w.
ResizeChanges(w) ==
    /\ last'.op = "mousemove"
    /\ last'.p # NoPos
    /\ Resizes(w)
    /\ ResizeApplies(widgets[w], last'.p)

---------------------------------------------------------------------------
(* SpecResize: one box loaded from saved settings, and the mouse.  The font  *)
(* size in data.json is taken as it is (loadSettings checks nothing).       *)

SavedFontSizes == { 10, 16 }

InitResize ==
    \E f \in SavedFontSizes, size \in AutoSizes :
        InitFrom(<< << "default", [ DEFAULT_BOX EXCEPT !.fontSize = f ],
                       DEFAULT_POSITION, size >> >>,
                 HostUp(NoteA), MaxResizeEvents)

NextResize ==
    \/ \E w \in DOMAIN widgets, p \in GesturePoints : MouseDown(w, p)
    \/ \E p \in GesturePoints : MouseMove(p)
    \/ MouseUp
    \/ \E r \in reads : VaultRead(r)
    \/ \E r \in reads : ReadDone(r)

SpecResize == InitResize /\ [][NextResize]_vars

\* f is f0 scaled by the ratio of two interiors and rounded:
\* f = round(f0 * new / old), that is |f * old - f0 * new| <= old / 2.
ScaledBy(f, f0, new, old) == Abs(f * old - f0 * new) * 2 <= old

---------------------------------------------------------------------------
(* SpecHover: the pointer enters, moves over, presses and leaves one box.   *)

HoverPoints == { Pt(120, 120), Pt(158, 120), Pt(107, 107), Pt(120, 101) }

InitHover == InitFrom(FreshInstall, HostUp(NoteA), MaxHoverEvents)

NextHover ==
    \/ \E w \in DOMAIN widgets : PointerEnter(w)
    \/ \E w \in DOMAIN widgets : PointerLeave(w)
    \/ \E w \in DOMAIN widgets, p \in HoverPoints : HoverMove(w, p)
    \/ \E w \in DOMAIN widgets, p \in HoverPoints : HoverDown(w, p)
    \/ MouseUp
    \/ \E r \in reads : VaultRead(r)
    \/ \E r \in reads : ReadDone(r)

SpecHover == InitHover /\ [][NextHover]_vars

HoverOps == { "mouseenter", "mouseleave", "hovermove" }

\* C24: a hover event (mouseenter, mouseleave, mousemove over the element)
\* delivered to an Idle widget leaves it Idle and leaves its resize edge,
\* drag offset, position, size and font size as they were.
C24_HoverKeepsIdle ==
    [][ \A w \in DOMAIN widgets :
          (last'.op \in HoverOps /\ last'.w = w /\ Idle(widgets[w])) =>
            LET a == widgets[w]
                b == widgets'[w]
            IN  /\ Idle(b)
                /\ b.resizeEdge = a.resizeEdge
                /\ b.dragOffset = a.dragOffset
                /\ b.settings.position = a.settings.position
                /\ posHeap'[b.settings.position] = posHeap[a.settings.position]
                /\ << b.elLeft, b.elTop >> = << a.elLeft, a.elTop >>
                /\ << b.elWidth, b.elHeight >> = << a.elWidth, a.elHeight >>
                /\ b.settings.fontSize = a.settings.fontSize ]_vars

\* An Idle widget has just been shown a resize cursor by a hover-move.
C24_Witness ==
    /\ last.op = "hovermove"
    /\ last.w \in DOMAIN widgets
    /\ Idle(widgets[last.w])
    /\ widgets[last.w].elCursor = "nwse-resize"

\* The cursor of a zone; "" is the interior.
CursorOfZone(z) ==
    IF z = "" THEN "move"
    ELSE IF z \in { "n", "s" } THEN "ns-resize"
    ELSE IF z \in { "e", "w" } THEN "ew-resize"
    ELSE IF z \in { "ne", "sw" } THEN "nesw-resize"
    ELSE "nwse-resize"

\* C25: after a hover-move over a widget that has its listeners and is not
\* resizing, its cursor is the one of the zone under the pointer ("move" in
\* the interior), and after every pointer-leave its cursor is "move".
C25_CursorFollowsPointer ==
    [][ \A w \in DOMAIN widgets :
          /\ ( /\ last'.op = "hovermove"
               /\ last'.w = w
               /\ widgets[w].elListeners
               /\ ~widgets[w].isResizing )
             => widgets'[w].elCursor = CursorOfZone(Zone(last'.p, widgets[w]))
          /\ ( /\ last'.op = "mouseleave"
               /\ last'.w = w
               /\ widgets[w].elListeners )
             => widgets'[w].elCursor = "move" ]_vars

\* The same, for a widget whose "mouseenter" listener has run since the
\* pointer came over it, and for a pointer-leave while it is not resizing.
C25_CursorFollowsSeenPointer ==
    [][ \A w \in DOMAIN widgets :
          /\ ( /\ last'.op = "hovermove"
               /\ last'.w = w
               /\ widgets[w].isMouseOver
               /\ ~widgets[w].isResizing )
             => widgets'[w].elCursor = CursorOfZone(Zone(last'.p, widgets[w]))
          /\ ( /\ last'.op = "mouseleave"
               /\ last'.w = w
               /\ widgets[w].elListeners
               /\ ~widgets[w].isResizing )
             => widgets'[w].elCursor = "move" ]_vars

\* A hover-move has set the cursor of the east edge.
C25_Witness ==
    /\ last.op = "hovermove"
    /\ last.w \in DOMAIN widgets
    /\ widgets[last.w].isMouseOver
    /\ widgets[last.w].elCursor = "ew-resize"

---------------------------------------------------------------------------
(* SpecClamp: the drag handlers of the variant that keeps the box inside    *)
(* the viewport (addDragEvents).  Lengths are whole pixels here; widgets    *)
(* holds the one box the handlers close over.                               *)

MutClamp(value, min, max) == Max2(Min2(value, max), min)

\* clamp(value, min, max).
clamp(value, min, max) == Min2(Max2(value, min), max)

\* The box and the closure variables of addDragEvents(box, number).
DragBox(position, size) ==
    [ position      |-> position,
      offsetWidth   |-> size[1],
      offsetHeight  |-> size[2],
      elLeft        |-> position[1],
      elTop         |-> position[2],
      isDragging    |-> FALSE,
      isResizing    |-> FALSE,
      startPos      |-> << 0, 0 >>,
      startMousePos |-> << 0, 0 >>,
      inThrottle    |-> FALSE ]

\* addDragEvents.onDragStart with the pointer at pos.
ClampDragStart(pos) ==
    /\ Budget
    /\ widgets' = [ widgets EXCEPT ![1] =
                      IF widgets[1].isResizing THEN widgets[1]
                      ELSE [ widgets[1] EXCEPT
                               !.isDragging = TRUE,
                               !.startPos = widgets[1].position,
                               !.startMousePos = pos ] ]
    /\ events' = events - 1
    /\ last' = Op("dragStart", "", 1, pos, 0, FALSE)
    /\ UNCHANGED << dailyNoteEndTime,
                    now, boxes, posHeap, pluginBoxes, defaultBox, savedData,
                    reads, vault, hist >>

\* addDragEvents.onDragMove with the pointer at pos, in a window whose
\* innerWidth and innerHeight are `viewport`.
ClampDragMove(pos, viewport) ==
    LET box == widgets[1]
        x == clamp(box.startPos[1] + (pos[1] - box.startMousePos[1]), 0,
                   viewport[1] - box.offsetWidth)
        y == clamp(box.startPos[2] + (pos[2] - box.startMousePos[2]), 0,
                   viewport[2] - box.offsetHeight)
    IN  /\ Budget
        /\ widgets' = [ widgets EXCEPT ![1] =
                          IF ~box.isDragging THEN box
                          ELSE [ box EXCEPT !.position = << x, y >>,
                                            !.elLeft = x, !.elTop = y ] ]
        /\ events' = events - 1
        /\ last' = OpWith("dragMove", "", 1,
                          [ viewport |-> viewport, applied |-> box.isDragging ],
                          0, FALSE)
        /\ UNCHANGED << dailyNoteEndTime,
                        now, boxes, posHeap, pluginBoxes, defaultBox,
                        savedData, reads, vault, hist >>

\* What saveSettings writes of the box: its position and size.
SavedNumber(box) ==
    [ position |-> box.position,
      size     |-> << box.offsetWidth, box.offsetHeight >> ]

\* addDragEvents.onDragEnd.  It calls throttledSaveSettings: throttle(func,
\* 500) calls saveSettings and sets inThrottle when inThrottle is unset,
\* and does nothing when it is set.  saveSettings writes the settings and
\* then recreates the box, whose new closure starts from its initial values.
ClampDragEnd ==
    LET box == widgets[1]
        saves == box.isDragging /\ ~box.inThrottle
    IN  /\ Budget
        /\ widgets' = [ widgets EXCEPT ![1] =
                          IF ~box.isDragging THEN box
                          ELSE IF saves
                          THEN [ DragBox(box.position,
                                         << box.offsetWidth, box.offsetHeight >>)
                                   EXCEPT !.inThrottle = TRUE ]
                          ELSE [ box EXCEPT !.isDragging = FALSE ] ]
        /\ savedData' = IF saves THEN SavedNumber(box) ELSE savedData
        /\ events' = events - 1
        /\ last' = Op("dragEnd", "", 1, NoPos, IF saves THEN 1 ELSE 0, FALSE)
        /\ UNCHANGED << dailyNoteEndTime,
                        now, boxes, posHeap, pluginBoxes, defaultBox,
                        reads, vault, hist >>

\* The timer throttle set 500 ms earlier fires: inThrottle = false.
ThrottleTimeout ==
    /\ widgets[1].inThrottle
    /\ widgets' = [ widgets EXCEPT ![1].inThrottle = FALSE ]
    /\ last' = Op("throttleTimeout", "", 1, NoPos, 0, FALSE)
    /\ UNCHANGED << dailyNoteEndTime,
                    now, boxes, posHeap, pluginBoxes, defaultBox, savedData,
                    reads, vault, events, hist >>

\* Saved positions, box sizes, pointer positions and window sizes.
ClampStarts == { << 10, 10 >>, << 150, 20 >> }
ClampSizes == { << 60, 40 >> }
ClampPoints == { << 20, 15 >>, << 190, 90 >>, << 0 - 30, 40 >>, << 25, 20 >> }
Viewports == { << 200, 100 >>, << 40, 100 >>, << 200, 30 >> }

InitClamp ==
    \E position \in ClampStarts, size \in ClampSizes :
        /\ now = 1
        /\ vault = HostUp(NoteA)
        /\ dailyNoteEndTime = DEFAULT_END_TIME
        /\ posHeap = [ r \in { DefaultPosRef } |-> DEFAULT_POSITION ]
        /\ pluginBoxes = << >>
        /\ widgets = << DragBox(position, size) >>
        /\ boxes = << >>
        /\ defaultBox = DEFAULT_BOX
        /\ savedData = SavedNumber(DragBox(position, size))
        /\ reads = { }
        /\ events = MaxClampEvents
        /\ hist = << NoHist >>
        /\ last = Op("load", "", 0, NoPos, 0, FALSE)

NextClamp ==
    \/ \E pos \in ClampPoints : ClampDragStart(pos)
    \/ \E pos \in ClampPoints, viewport \in Viewports : ClampDragMove(pos, viewport)
    \/ ClampDragEnd
    \/ ThrottleTimeout

SpecClamp == InitClamp /\ [][NextClamp]_vars

\* C28: after a drag-move the handler applied, the box is inside the
\* window: 0 <= x <= innerWidth - offsetWidth and
\* 0 <= y <= innerHeight - offsetHeight.
C28_DragStaysInViewport ==
    [][ (last'.op = "dragMove" /\ last'.arg.applied) =>
          LET box == widgets'[1]
              viewport == last'.arg.viewport
          IN  /\ 0 <= box.position[1]
              /\ box.position[1] <= viewport[1] - box.offsetWidth
              /\ 0 <= box.position[2]
              /\ box.position[2] <= viewport[2] - box.offsetHeight ]_vars

\* One coordinate after a clamped move: inside [0, room] when the box fits
\* (room >= 0), and equal to room, which is negative, when it does not.
ClampedInto(v, room) == IF room >= 0 THEN 0 <= v /\ v <= room ELSE v = room

\* C28, amended: the above where the window is at least as large as the box;
\* in a dimension where it is smaller the coordinate is the negative
\* difference innerDimension - offsetDimension.
C28_DragStaysInViewportIfFits ==
    [][ (last'.op = "dragMove" /\ last'.arg.applied) =>
          LET box == widgets'[1]
              viewport == last'.arg.viewport
          IN  /\ ClampedInto(box.position[1], viewport[1] - box.offsetWidth)
              /\ ClampedInto(box.position[2], viewport[2] - box.offsetHeight)
              /\ << box.elLeft, box.elTop >> = box.position ]_vars

\* A drag-move has pushed the box against the right edge of a window it
\* fits in.
C28_Witness ==
    /\ last.op = "dragMove"
    /\ last.arg.applied
    /\ last.arg.viewport = << 200, 100 >>
    /\ widgets[1].position[1] = 140
    /\ widgets[1].startPos[1] < 140

\* C33: once the gesture is over and the throttle timer has fired, the
\* blob last written to the settings store holds the box's current position
\* and size.
C33_QuiescentIsWritten ==
    (~widgets[1].isDragging /\ ~widgets[1].inThrottle) =>
        savedData = SavedNumber(widgets[1])

\* A drag has ended outside the throttle interval and its final position
\* has been written.
C33_DragEndWritten ==
    /\ last.op = "dragEnd"
    /\ last.saves = 1
    /\ savedData = SavedNumber(widgets[1])
    /\ widgets[1].position # widgets[1].startPos

---------------------------------------------------------------------------
(* SpecDay: which file getTodayDailyNote resolves, by date and time of day. *)

\* getAbstractFileByPath found no file.
NoFile == 0

DigitChars == { Digits[i] : i \in 1..Len(Digits) }

\* The test of the "Daily Note End Time" field:
\* /^([0-1]?[0-9]|2[0-3]):[0-5][0-9]$/.
IsValidTime(value) ==
    LET hours(h) == \/ /\ Len(h) = 1
                       /\ h[1] \in DigitChars
                    \/ /\ Len(h) = 2
                       /\ h[1] \in { "0", "1" }
                       /\ h[2] \in DigitChars
                    \/ /\ Len(h) = 2
                       /\ h[1] = "2"
                       /\ h[2] \in { "0", "1", "2", "3" }
        n == Len(value)
    IN  /\ n \in { 4, 5 }
        /\ hours(SubSeq(value, 1, n - 3))
        /\ value[n - 2] = ":"
        /\ value[n - 1] \in { "0", "1", "2", "3", "4", "5" }
        /\ value[n] \in DigitChars

\* The onChange handler of the "Daily Note End Time" text field: a valid
\* value is stored and the settings are saved, any other is refused.
EndTimeOnChange(value) ==
    /\ Budget
    /\ IF IsValidTime(value)
       THEN /\ dailyNoteEndTime' = value
            /\ savedData' = Blob(pluginBoxes, posHeap)
       ELSE UNCHANGED << dailyNoteEndTime, savedData >>
    /\ events' = events - 1
    /\ last' = OpWith("endTimeOnChange", "", 0, value,
                      IF IsValidTime(value) THEN 1 ELSE 0, FALSE)
    /\ UNCHANGED << now, boxes, widgets, posHeap, pluginBoxes, defaultBox,
                    reads, vault >>
    /\ UNCHANGED hist

\* getTodayDailyNote called when the local calendar date is `date` and the
\* time of day is `time`: the file named by moment().format(format), found
\* by its path.  A file is identified by the date it is named for.
getTodayDailyNoteAt(v, date, time) ==
    IF ~v.enabled THEN NoFile
    ELSE IF date \in v.files THEN date
    ELSE NoFile

GetTodayDailyNote(date, time) ==
    /\ Budget
    /\ events' = events - 1
    /\ last' = OpWith("getTodayDailyNote", "", 0,
                      [ date |-> date, time |-> time,
                        file |-> getTodayDailyNoteAt(vault, date, time) ],
                      0, FALSE)
    /\ UNCHANGED << now, boxes, widgets, posHeap, pluginBoxes, defaultBox,
                    savedData, reads, vault, dailyNoteEndTime >>
    /\ UNCHANGED hist

\* Calendar dates (day numbers), times of day << hours, minutes >>, the
\* dates that have a daily note, and what is typed into the field.
Dates == { 2, 3 }
Times == { << 0, 0 >>, << 3, 59 >>, << 4, 0 >>, << 12, 29 >>, << 23, 59 >> }
NoteDates == { { 1, 2, 3 }, { 2, 3 }, { 1 } }
EndTimes ==
    { << "0", "4", ":", "0", "0" >>, << "0", "0", ":", "0", "0" >>,
      << "4", ":", "0", "0" >>, << "1", "2", ":", "3", "0" >>,
      << "2", "4", ":", "0", "0" >>, << "4", "a", "m" >> }

InitDay ==
    \E files \in NoteDates, enabled \in BOOLEAN :
        /\ now = 1
        /\ vault = [ enabled |-> enabled, exists |-> TRUE, content |-> NoteA,
                     files |-> files ]
        /\ dailyNoteEndTime = DEFAULT_END_TIME
        /\ posHeap = [ r \in { DefaultPosRef } |-> DEFAULT_POSITION ]
        /\ pluginBoxes = << >>
        /\ widgets = << >>
        /\ boxes = << >>
        /\ defaultBox = DEFAULT_BOX
        /\ savedData = << >>
        /\ reads = { }
        /\ events = MaxDayEvents
        /\ hist = << >>
        /\ last = Op("load", "", 0, NoPos, 0, FALSE)

NextDay ==
    \/ \E value \in EndTimes : EndTimeOnChange(value)
    \/ \E date \in Dates, time \in Times : GetTodayDailyNote(date, time)

SpecDay == InitDay /\ [][NextDay]_vars

\* "HH:mm" or "H:mm" in minutes after midnight.
DigitValue(c) == (CHOOSE i \in 1..Len(Digits) : Digits[i] = c) - 1

MinutesOf(value) ==
    LET n == Len(value)
        h == IF n = 5 THEN 10 * DigitValue(value[1]) + DigitValue(value[2])
             ELSE DigitValue(value[1])
    IN  60 * h + 10 * DigitValue(value[n - 1]) + DigitValue(value[n])

\* C30: with the daily-notes feature on, the file getTodayDailyNote resolves
\* is the note of the previous calendar date when the time of day is before
\* dailyNoteEndTime, and the note of the current date otherwise (no file
\* when that note does not exist).
C30_DayBoundary ==
    (last.op = "getTodayDailyNote" /\ vault.enabled) =>
        LET a == last.arg
            day == IF 60 * a.time[1] + a.time[2] < MinutesOf(dailyNoteEndTime)
                   THEN a.date - 1
                   ELSE a.date
        IN  a.file = IF day \in vault.files THEN day ELSE NoFile

\* At or after the end time the note of the current date is resolved.
C30_AfterEndTime ==
    /\ last.op = "getTodayDailyNote"
    /\ vault.enabled
    /\ dailyNoteEndTime = << "1", "2", ":", "3", "0" >>
    /\ last.arg.time = << 23, 59 >>
    /\ last.arg.file = last.arg.date

\* "HH:mm": a two-digit hour 00-23, a colon, a two-digit minute 00-59.
IsHHmm(value) ==
    /\ Len(value) = 5
    /\ value[1] \in DigitChars
    /\ value[2] \in DigitChars
    /\ 10 * DigitValue(value[1]) + DigitValue(value[2]) <= 23
    /\ value[3] = ":"
    /\ value[4] \in DigitChars
    /\ value[5] \in DigitChars
    /\ 10 * DigitValue(value[4]) + DigitValue(value[5]) <= 59

\* C31: after an edit of the Daily Note End Time field the stored
\* dailyNoteEndTime is in HH:mm format, and an entry that is not leaves the
\* stored value as it was and saves nothing.
C31_EndTimeIsHHmm ==
    [][ last'.op = "endTimeOnChange" =>
          /\ IsHHmm(dailyNoteEndTime')
          /\ ~IsHHmm(last'.arg) =>
                /\ dailyNoteEndTime' = dailyNoteEndTime
                /\ last'.saves = 0 ]_vars

\* An entry in HH:mm format has been stored and saved.
C31_ValidEntryStored ==
    /\ last.op = "endTimeOnChange"
    /\ last.arg = << "1", "2", ":", "3", "0" >>
    /\ dailyNoteEndTime = last.arg
    /\ last.saves = 1

---------------------------------------------------------------------------
(* SpecForm: the settings tab, from the default settings.                   *)

\* The options of the "Data Type" dropdown.
DataTypeOptions ==
    { "completedTasks", "uncompletedTasks", "wordCount", "characterCount",
      "sentenceCount", "pageCount", "dataview", "customjs" }

\* What the user types into the two text fields.
NotePaths == { "", "folder/note" }
FieldNames == { << >>, << "F" >> }

InitForm == InitFrom(FreshInstall, HostUp(NoteB), MaxFormEvents)

NextForm ==
    \/ \E id \in Ids, value \in BOOLEAN : UseDailyNoteOnChange(id, value)
    \/ \E id \in Ids, value \in NotePaths : CustomNotePathOnChange(id, value)
    \/ \E id \in Ids, value \in DataTypeOptions : DataTypeOnChange(id, value)
    \/ \E id \in Ids, value \in FieldNames : DataviewFieldOnChange(id, value)
    \/ \E t \in 1..MaxClock : CreateBox(t, Pt(60, 40))
    \/ \E r \in reads : VaultRead(r)
    \/ \E r \in reads : ReadDone(r)

SpecForm == InitForm /\ [][NextForm]_vars

\* Every BoxSettings record: the persisted ones and the widgets' live ones.
AllBoxSettings ==
    { pluginBoxes[id] : id \in DOMAIN pluginBoxes }
        \cup { widgets[w].settings : w \in Registered }

\* C18: every BoxSettings record whose dataType selects the dataview field
\* has a non-empty dataviewField.
C18_DataviewFieldSet ==
    \A s \in AllBoxSettings :
        s.dataType = "dataview" => s.dataviewField # << >>

\* C19: every BoxSettings record with useDailyNote = false has a non-empty
\* customNotePath.
C19_CustomNotePathSet ==
    \A s \in AllBoxSettings :
        ~s.useDailyNote => s.customNotePath # ""

---------------------------------------------------------------------------
(* SpecResolver: one box, its data source, and today's note.                *)

RECURSIVE Repeat(_, _)
Repeat(cs, n) == IF n = 0 THEN << >> ELSE cs \o Repeat(cs, n - 1)

\* Notes: tasks at the start of a line, indented, in the middle of a line,
\* twice on a line, a marker with nothing after it, an inline field, a field
\* without a value, eleven tasks, a field whose name has parentheses, and the
\* empty note.
ResolverNotes ==
    { NoteA,
      << " ", " " >> \o TaskLine \o << "\n" >> \o TaskLine,
      CompletedMarker \o << "\n" >> \o TaskLine,
      << "a" >> \o TaskLine \o TaskLine,
      << "F", ":", ":", " ", "7", " ", "\n" >> \o TaskLine,
      << "F", ":", ":", " ", "\n" >> \o OpenLine,
      Repeat(TaskLine \o << "\n" >>, 11),
      << "F", "(", "a", ")", ":", ":", " ", "7", "\n",
         "F", "a", ":", ":", " ", "8" >>,
      << >> }

ResolverSettings ==
    { [ DEFAULT_BOX EXCEPT !.dataType = t, !.dataviewField = f,
                           !.noDataMessage = m ] :
        t \in { "completedTasks", "uncompletedTasks", "wordCount", "dataview",
                "pageCount" },
        f \in { << "F" >>, << "(" >>, << "F", "(", "a", ")" >> },
        m \in { "N/A", "--" } }

InitResolver ==
    \E settings \in ResolverSettings, content \in ResolverNotes,
       enabled \in BOOLEAN, exists \in BOOLEAN :
        InitFrom(<< << "default", settings, DEFAULT_POSITION, Pt(60, 40) >> >>,
                 [ enabled |-> enabled, exists |-> exists, content |-> content ],
                 MaxResolveEvents)

NextResolver ==
    \/ \E content \in ResolverNotes : FileModified(content)
    \/ \E enabled \in BOOLEAN, exists \in BOOLEAN : HostChanges(enabled, exists)
    \/ \E r \in reads : VaultRead(r)
    \/ \E r \in reads : ReadDone(r)

SpecResolver == InitResolver /\ [][NextResolver]_vars

\* The lines of a note.
RECURSIVE Lines(_)
Lines(content) ==
    IF \A i \in 1..Len(content) : content[i] # "\n" THEN << content >>
    ELSE LET i == CHOOSE j \in 1..Len(content) :
                      /\ content[j] = "\n"
                      /\ \A k \in 1..(j - 1) : content[k] # "\n"
         IN  << SubSeq(content, 1, i - 1) >>
                 \o Lines(SubSeq(content, i + 1, Len(content)))

\* Whether `pre` followed by at least one more character occurs in `line`
\* at index i.
OccursAt(line, pre, i) ==
    /\ i + Len(pre) <= Len(line)
    /\ SubSeq(line, i, i + Len(pre) - 1) = pre

\* A line matching  ^- \[x\] .+$ .
IsTaskLine(line) == OccursAt(line, CompletedMarker, 1)

\* The number of lines of a note that match it.
CountTaskLines(content) ==
    Cardinality({ n \in 1..Len(Lines(content)) :
                    IsTaskLine(Lines(content)[n]) })

\* The settled refresh of the last step resolved a file and read it.
ReadOk ==
    /\ last.op = "readDone"
    /\ last.arg.dailyNote
    /\ ~last.arg.readError

\* The requested inline field is missing from the content read.
FieldMissing(r) ==
    /\ r.dailyNote
    /\ ~r.readError
    /\ r.settings.dataType = "dataview"
    /\ \A n \in 1..Len(Lines(r.content)) :
          \A i \in 1..Len(Lines(r.content)[n]) :
              ~OccursAt(Lines(r.content)[n],
                        r.settings.dataviewField \o << ":", ":", " " >>, i)

\* C8: when the resolution fails (daily notes disabled, today's note
\* missing, the requested field missing) the box shows the no-data message
\* configured for it.
C8_NoDataMessageOnFailure ==
    ( /\ last.op = "readDone"
      /\ ~last.arg.rejected
      /\ ~last.arg.dailyNote \/ FieldMissing(last.arg) )
    => widgets[last.w].elText = last.arg.settings.noDataMessage

\* C9: when the read of the note or the extraction throws, getTodayNumber
\* still resolves, to the no-data message: the refresh never rejects.
C9_ExceptionsCaught ==
    ( /\ last.op = "readDone"
      /\ last.arg.dailyNote
      /\ \/ last.arg.readError
         \/ /\ last.arg.settings.dataType = "dataview"
            /\ RegExpThrows(last.arg.settings.dataviewField) )
    => /\ ~last.arg.rejected
       /\ ~last.threw
       /\ widgets[last.w].elText = last.arg.settings.noDataMessage

\* C10: the completed-task count shown is the number of lines of
\* the note that match  ^- \[x\] .+$ .
C10_CountsAnchoredLines ==
    (ReadOk /\ last.arg.settings.dataType = "completedTasks")
    => widgets[last.w].elText =
           NumberToString(CountTaskLines(last.arg.content))

\* The value of the first line of a note that holds  F:: <value>  for the
\* field name F taken literally, trimmed; the no-data message when no line
\* holds it.
RECURSIVE FieldValueOfLines(_, _, _)
FieldValueOfLines(lines, field, noDataMessage) ==
    IF lines = << >> THEN noDataMessage
    ELSE LET line == Head(lines)
             pre  == field \o << ":", ":", " " >>
             at   == { i \in 1..Len(line) : OccursAt(line, pre, i) }
         IN  IF at = {}
             THEN FieldValueOfLines(Tail(lines), field, noDataMessage)
             ELSE Join(Trim(SubSeq(line, SetMin(at) + Len(pre), Len(line))))

\* C11: for the dataview data type with field name F the box shows the
\* trimmed value of the first line holding  F:: <value> , and the no-data
\* message when no line holds it.
C11_ShowsFieldValue ==
    ( /\ ReadOk
      /\ ~last.arg.rejected
      /\ last.arg.settings.dataType = "dataview" )
    => widgets[last.w].elText =
           FieldValueOfLines(Lines(last.arg.content),
                             last.arg.settings.dataviewField,
                             last.arg.settings.noDataMessage)

\* The same restricted to field names without pattern metacharacters.
C11_PlainFieldWitness ==
    /\ ReadOk
    /\ last.arg.settings.dataType = "dataview"
    /\ last.arg.settings.dataviewField = << "F" >>
    /\ widgets[last.w].elText = "7"

---------------------------------------------------------------------------
(* SpecWords: the word count of the older plugin, on notes with code.       *)

\* The pieces a note is made of, each with its text and whether it is code:
\* a word, a blank, a line break, a heading mark, a link, a fenced code
\* block, an inline code span between single backticks, one between double
\* backticks, and a fenced block that is still open at the end of the note.
Segments ==
    { [ kind |-> "word", code |-> FALSE, raw |-> << "a", "b" >> ],
      [ kind |-> "blank", code |-> FALSE, raw |-> << " " >> ],
      [ kind |-> "break", code |-> FALSE, raw |-> << "\n" >> ],
      [ kind |-> "heading", code |-> FALSE, raw |-> << "#" >> ],
      [ kind |-> "link", code |-> FALSE,
        raw |-> << "[", "k", "]", "(", "u", ")" >> ],
      [ kind |-> "fence", code |-> TRUE,
        raw |-> << Backtick, Backtick, Backtick, "\n", "c", " ", "d", "\n",
                   Backtick, Backtick, Backtick >> ],
      [ kind |-> "span", code |-> TRUE,
        raw |-> << Backtick, "e", " ", "f", Backtick >> ],
      [ kind |-> "span2", code |-> TRUE,
        raw |-> << Backtick, Backtick, "g", Backtick, Backtick >> ],
      [ kind |-> "openFence", code |-> TRUE,
        raw |-> << Backtick, Backtick, Backtick, "\n", "h" >> ] }

\* A note is well formed when its fences start a line, a closed fence ends
\* one, an open fence is the last piece, and no code span touches the
\* backticks of another piece.
WellFormed(doc) ==
    \A n \in 1..Len(doc) :
        /\ doc[n].kind \in { "fence", "openFence" }
               => (n = 1 \/ doc[n - 1].kind = "break")
        /\ doc[n].kind = "fence"
               => (n = Len(doc) \/ doc[n + 1].kind = "break")
        /\ doc[n].kind = "openFence" => n = Len(doc)
        /\ (doc[n].kind \in { "span", "span2" } /\ n > 1)
               => ~doc[n - 1].code

Docs ==
    { doc \in UNION { [ 1..n -> Segments ] : n \in 1..MaxSegments } :
        WellFormed(doc) }

\* The text of a note, and its text outside code.
RECURSIVE Raw(_)
Raw(doc) == IF doc = << >> THEN << >> ELSE Head(doc).raw \o Raw(Tail(doc))

RECURSIVE TextOutsideCode(_)
TextOutsideCode(doc) ==
    IF doc = << >> THEN << >>
    ELSE (IF Head(doc).code THEN << >> ELSE Head(doc).raw)
             \o TextOutsideCode(Tail(doc))

\* The older plugin has read today's note.
InitWords ==
    \E doc \in Docs : InitFrom(<< >>, HostUp(Raw(doc)), 1)

\* Its refresh for the word-count data type: countWords(content).  `doc` is
\* the structure of the note read.
CountWords(doc) ==
    /\ Budget
    /\ Raw(doc) = vault.content
    /\ events' = events - 1
    /\ last' = OpWith("countWords", "", 0,
                      [ doc |-> doc, count |-> countWordsStripped(vault.content) ],
                      0, FALSE)
    /\ UNCHANGED << dailyNoteEndTime,
                    now, boxes, widgets, posHeap, pluginBoxes, defaultBox,
                    savedData, reads, vault, hist >>

NextWords == \E doc \in Docs : CountWords(doc)

SpecWords == InitWords /\ [][NextWords]_vars

\* C20: the word count is the number of whitespace-delimited tokens of the
\* text outside fenced code blocks and inline code spans (its links reduced
\* to their text and its markdown symbols dropped, as this variant does): no
\* token inside a fenced block or an inline code span is counted.
C20_CodeNotCounted ==
    last.op = "countWords"
    => last.arg.count =
           countWords(Trim(RemoveMarkdownSymbols(
                             ReplaceLinks(TextOutsideCode(last.arg.doc), 1))))

\* A note with a closed fenced block, a line break and a word has just been
\* counted as one word.
C20_ClosedFenceWitness ==
    /\ last.op = "countWords"
    /\ Len(last.arg.doc) = 3
    /\ last.arg.doc[1].kind = "fence"
    /\ last.arg.doc[3].kind = "word"
    /\ last.arg.count = 1

=============================================================================
